---- MODULE Spec2Model ----
(***************************************************************************)
(* Model of the api-gateway stack: the GatewayContract chaincode (world     *)
(* state = ordered key/value store) and the gateway's convergence and       *)
(* whitelist services that read it.                                         *)
(*                                                                          *)
(* Strings are finite sequences of tokens.  A token is one character        *)
(* (" ", ":", "A", "B", "a", "b") or one of the words the chaincode's key   *)
(* layout uses ("cluster", "summary", "state").  No token is a prefix of    *)
(* another, so concatenation, prefix/suffix tests, splitting on ":" and     *)
(* byte-wise ordering of the real strings are exactly the same operations   *)
(* on the token sequences.                                                  *)
(***************************************************************************)
EXTENDS Integers, Sequences, FiniteSets, TLC

VARIABLES ledger, clock, nops, last, hist, reqs

vars == <<ledger, clock, nops, last, hist, reqs>>

(***************************************************************************)
(* Bounds of the exploration.                                               *)
(***************************************************************************)
MaxOps == 3
MaxClock == 2
MaxReqs == 3

(***************************************************************************)
(* Strings                                                                  *)
(***************************************************************************)
\* Tokens in ascending byte order of the text they stand for.
TokenOrder ==
    << " ", ":", "A", "B", "a", "b", "cluster", "conv:nation:", "conv:state:",
       "data:", "model:", "nation", "state", "summary", "t1", "t2", "trainer:",
       "unassigned", "unknown", "whitelist:", "~" >>

Rank(tok) == CHOOSE i \in 1..Len(TokenOrder) : TokenOrder[i] = tok

\* strings.ToLower on one character
LowerTok(tok) == CASE tok = "A" -> "a" [] tok = "B" -> "b" [] OTHER -> tok

\* strings.ToLower
ToLower(s) == [i \in 1..Len(s) |-> LowerTok(s[i])]

\* strings.TrimSpace
RECURSIVE TrimLeft(_)
TrimLeft(s) == IF s # <<>> /\ Head(s) = " " THEN TrimLeft(Tail(s)) ELSE s

RECURSIVE TrimRight(_)
TrimRight(s) ==
    IF s # <<>> /\ s[Len(s)] = " " THEN TrimRight(SubSeq(s, 1, Len(s) - 1)) ELSE s

TrimSpace(s) == TrimRight(TrimLeft(s))

\* strings.EqualFold
EqualFold(s, t) == ToLower(s) = ToLower(t)

\* strings.HasPrefix / strings.HasSuffix / strings.Contains
HasPrefix(s, p) == Len(s) >= Len(p) /\ SubSeq(s, 1, Len(p)) = p

HasSuffix(s, p) == Len(s) >= Len(p) /\ SubSeq(s, Len(s) - Len(p) + 1, Len(s)) = p

Contains(s, p) ==
    \E i \in 1..(Len(s) - Len(p) + 1) : SubSeq(s, i, i + Len(p) - 1) = p

\* byte-wise s < t
RECURSIVE StrLess(_, _)
StrLess(s, t) ==
    IF t = <<>> THEN FALSE
    ELSE IF s = <<>> THEN TRUE
    ELSE IF Head(s) = Head(t) THEN StrLess(Tail(s), Tail(t))
    ELSE Rank(Head(s)) < Rank(Head(t))

\* strings.Split(s, ":")
RECURSIVE SplitColon(_)
SplitColon(s) ==
    IF \A i \in 1..Len(s) : s[i] # ":" THEN << s >>
    ELSE LET i == CHOOSE j \in 1..Len(s) :
                      s[j] = ":" /\ \A k \in 1..(j - 1) : s[k] # ":"
         IN  << SubSeq(s, 1, i - 1) >> \o SplitColon(SubSeq(s, i + 1, Len(s)))

\* strings.Join(parts, ":")
RECURSIVE JoinColon(_)
JoinColon(parts) ==
    IF parts = <<>> THEN <<>>
    ELSE IF Len(parts) = 1 THEN parts[1]
    ELSE parts[1] \o << ":" >> \o JoinColon(Tail(parts))

\* F applied to the value of v, which is computed once
Bind(v, F(_)) == CHOOSE r \in {F(x) : x \in {v}} : TRUE

(***************************************************************************)
(* Key layout of the chaincode                                              *)
(***************************************************************************)
\* (one prefix shared by both convergence scopes)
sharedConvPrefix == << "conv:nation:" >>

trainerPrefix == << "trainer:" >>
whitelistPrefix == << "whitelist:" >>
stateConvPrefix == << "conv:state:" >>
nationConvPrefix == << "conv:nation:" >>

trainerKey(clientID) == trainerPrefix \o clientID

whitelistKey(jwtSub) == whitelistPrefix \o ToLower(TrimSpace(jwtSub))

stateClusterKey(stateID, clusterID) ==
    stateConvPrefix \o stateID \o << ":", "cluster", ":" >> \o clusterID

stateSummaryKey(stateID) == stateConvPrefix \o stateID \o << ":", "summary" >>

nationStateKey(stateID) == nationConvPrefix \o << "state", ":" >> \o stateID

nationSummaryKey == nationConvPrefix \o << "summary" >>

\* normalizeIdentifier: the value and whether it was accepted
normalizeIdentifier(value) ==
    LET v == ToLower(TrimSpace(value))
    IN  [ok |-> v # <<>>, v |-> v]

(***************************************************************************)
(* World state: a partial map from keys to JSON objects.  A JSON object is  *)
(* a record named by its JSON field names; reading it into a Go struct      *)
(* keeps the fields the struct declares and leaves the others empty.        *)
(***************************************************************************)
Has(l, k) == k \in DOMAIN l

PutState(l, k, v) == [x \in DOMAIN l \cup {k} |-> IF x = k THEN v ELSE l[x]]

StrField(v, f) == IF f \in DOMAIN v THEN v[f] ELSE <<>>
TxtField(v, f) == IF f \in DOMAIN v THEN v[f] ELSE ""
TimeField(v, f) == IF f \in DOMAIN v THEN v[f] ELSE 0

\* json.Unmarshal into ConvergenceRecord
AsConvergenceRecord(v) ==
    [scope |-> TxtField(v, "scope"), state_id |-> StrField(v, "state_id"),
     cluster_id |-> StrField(v, "cluster_id"), source_id |-> TxtField(v, "source_id"),
     payload |-> StrField(v, "payload"), submitted_at |-> TimeField(v, "submitted_at")]

\* json.Unmarshal into ConvergenceSummary
AsConvergenceSummary(v) ==
    [scope |-> TxtField(v, "scope"), target_id |-> StrField(v, "target_id"),
     declared_by |-> TxtField(v, "declared_by"),
     declared_at |-> TimeField(v, "declared_at"), payload |-> StrField(v, "payload")]

\* keys of GetStateByRange(prefix, prefix + "~"), and the one iterated last
RangeKeys(l, prefix) ==
    {k \in DOMAIN l : ~StrLess(k, prefix) /\ StrLess(k, prefix \o << "~" >>)}

LastKey(keys) == CHOOSE k \in keys : \A j \in keys : j = k \/ StrLess(j, k)

\* sort.Strings, and the order in which a range iterator yields keys
SortStrings(S) ==
    Bind([k \in S |-> Cardinality({j \in S : StrLess(j, k)})], LAMBDA below :
        [i \in 1..Cardinality(S) |-> CHOOSE k \in S : below[k] = i - 1])

(***************************************************************************)
(* Chaincode transactions.  Each is a function of the world state, the      *)
(* invoking client identity, the arguments and the transaction time; it     *)
(* yields the error ("" when there is none) and the world state after it.   *)
(***************************************************************************)
Fail(l, msg) == [ok |-> FALSE, err |-> msg, ledger |-> l]
Done(l) == [ok |-> TRUE, err |-> "", ledger |-> l]

Blank(s) == TrimSpace(s) = <<>>

\* the same test on a text kept whole: "" and " " are the blank ones
BlankTxt(s) == s \in {"", " "}

\* the statuses that strings.EqualFold takes for "AUTHORIZED"
AuthorizedSpellings == {"AUTHORIZED", "authorized"}

\* (a gate that asks for a trainer record and not for its status)
requireTrainerRecord(l, clientID) == Has(l, trainerKey(clientID))

\* requireAuthorizedTrainer: is the invoker registered with status AUTHORIZED
requireAuthorizedTrainer(l, clientID) ==
    /\ Has(l, trainerKey(clientID))
    /\ TxtField(l[trainerKey(clientID)], "status") \in AuthorizedSpellings

TrainerNode(l, clientID) == TxtField(l[trainerKey(clientID)], "node_id")

\* (a registration that keeps the record an identity already has)
RegisterTrainerKeepingFirst(l, clientID, did, nodeID, vcHash, publicKey, state, cluster, now) ==
    IF BlankTxt(did) THEN Fail(l, "did is required")
    ELSE IF BlankTxt(nodeID) THEN Fail(l, "nodeId is required")
    ELSE IF BlankTxt(vcHash) THEN Fail(l, "vcHash is required")
    ELSE IF BlankTxt(publicKey) THEN Fail(l, "publicKey is required")
    ELSE IF Has(l, trainerKey(clientID)) THEN Done(l)
    ELSE Done(PutState(l, trainerKey(clientID),
              [client_id |-> clientID, did |-> did, node_id |-> nodeID,
               state |-> TrimSpace(state), cluster |-> TrimSpace(cluster),
               vc_hash |-> vcHash, public_key |-> publicKey,
               status |-> "AUTHORIZED", registered_at |-> now]))

\* RegisterTrainer
RegisterTrainer(l, clientID, did, nodeID, vcHash, publicKey, state, cluster, now) ==
    IF BlankTxt(did) THEN Fail(l, "did is required")
    ELSE IF BlankTxt(nodeID) THEN Fail(l, "nodeId is required")
    ELSE IF BlankTxt(vcHash) THEN Fail(l, "vcHash is required")
    ELSE IF BlankTxt(publicKey) THEN Fail(l, "publicKey is required")
    ELSE Done(PutState(l, trainerKey(clientID),
              [client_id |-> clientID, did |-> did, node_id |-> nodeID,
               state |-> TrimSpace(state), cluster |-> TrimSpace(cluster),
               vc_hash |-> vcHash, public_key |-> publicKey,
               status |-> "AUTHORIZED", registered_at |-> now]))

\* RecordWhitelistEntry
RecordWhitelistEntry(l, jwtSub, did, nodeID, state, cluster, vcHash, publicKey, now) ==
    IF Blank(jwtSub) THEN Fail(l, "jwtSub is required")
    ELSE IF BlankTxt(did) THEN Fail(l, "did is required")
    ELSE IF BlankTxt(nodeID) THEN Fail(l, "nodeId is required")
    ELSE IF BlankTxt(vcHash) THEN Fail(l, "vcHash is required")
    ELSE IF BlankTxt(publicKey) THEN Fail(l, "publicKey is required")
    ELSE Done(PutState(l, whitelistKey(ToLower(TrimSpace(jwtSub))),
              [jwt_sub |-> ToLower(TrimSpace(jwtSub)), did |-> did,
               node_id |-> nodeID, state |-> TrimSpace(state),
               cluster |-> TrimSpace(cluster), vc_hash |-> vcHash,
               public_key |-> publicKey, registered_at |-> now]))

\* CommitStateClusterConvergence
CommitStateClusterConvergence(l, clientID, stateID, clusterID, payload, now) ==
    LET sid == normalizeIdentifier(stateID)
        cid == normalizeIdentifier(clusterID)
    IN  IF ~requireAuthorizedTrainer(l, clientID) THEN Fail(l, "trainer not authorized")
        ELSE IF ~sid.ok THEN Fail(l, "stateId is required")
        ELSE IF ~cid.ok THEN Fail(l, "clusterId is required")
        ELSE IF Blank(payload) THEN Fail(l, "payload is required")
        ELSE Done(PutState(l, stateClusterKey(sid.v, cid.v),
                  [scope |-> "state", state_id |-> sid.v, cluster_id |-> cid.v,
                   source_id |-> TrainerNode(l, clientID), payload |-> payload,
                   submitted_at |-> now]))

\* CommitNationStateConvergence (cluster_id is omitted from the JSON when empty)
CommitNationStateConvergence(l, clientID, stateID, payload, now) ==
    LET sid == normalizeIdentifier(stateID)
    IN  IF ~requireAuthorizedTrainer(l, clientID) THEN Fail(l, "trainer not authorized")
        ELSE IF ~sid.ok THEN Fail(l, "stateId is required")
        ELSE IF Blank(payload) THEN Fail(l, "payload is required")
        ELSE Done(PutState(l, nationStateKey(sid.v),
                  [scope |-> "nation", state_id |-> sid.v,
                   source_id |-> TrainerNode(l, clientID), payload |-> payload,
                   submitted_at |-> now]))

\* a declaration that would overwrite: DeclareStateConvergence without the
\* check for an existing summary
DeclareStateConvergenceOverwriting(l, clientID, stateID, payload, now) ==
    LET sid == normalizeIdentifier(stateID)
    IN  IF ~requireAuthorizedTrainer(l, clientID) THEN Fail(l, "trainer not authorized")
        ELSE IF ~sid.ok THEN Fail(l, "stateId is required")
        ELSE IF Blank(payload) THEN Fail(l, "payload is required")
        ELSE Done(PutState(l, stateSummaryKey(sid.v),
                  [scope |-> "state", target_id |-> sid.v,
                   declared_by |-> TrainerNode(l, clientID), declared_at |-> now,
                   payload |-> payload]))

\* DeclareStateConvergence
DeclareStateConvergence(l, clientID, stateID, payload, now) ==
    LET sid == normalizeIdentifier(stateID)
    IN  IF ~requireAuthorizedTrainer(l, clientID) THEN Fail(l, "trainer not authorized")
        ELSE IF ~sid.ok THEN Fail(l, "stateId is required")
        ELSE IF Has(l, stateSummaryKey(sid.v)) THEN Fail(l, "already declared converged")
        ELSE IF Blank(payload) THEN Fail(l, "payload is required")
        ELSE Done(PutState(l, stateSummaryKey(sid.v),
                  [scope |-> "state", target_id |-> sid.v,
                   declared_by |-> TrainerNode(l, clientID), declared_at |-> now,
                   payload |-> payload]))

\* DeclareNationConvergence
DeclareNationConvergence(l, clientID, payload, now) ==
    IF ~requireAuthorizedTrainer(l, clientID) THEN Fail(l, "trainer not authorized")
    ELSE IF Has(l, nationSummaryKey) THEN Fail(l, "already declared converged")
    ELSE IF Blank(payload) THEN Fail(l, "payload is required")
    ELSE Done(PutState(l, nationSummaryKey,
              [scope |-> "nation", target_id |-> << "nation" >>,
               declared_by |-> TrainerNode(l, clientID), declared_at |-> now,
               payload |-> payload]))

(***************************************************************************)
(* Chaincode queries                                                        *)
(***************************************************************************)
SummarySuffix == << ":", "summary" >>
ClusterInfix == << ":", "cluster", ":" >>

\* The result a range scan builds from the keys it visits: sums are the keys
\* read as the summary, recs the keys read as child records named by idOf;
\* a later key overwrites what an earlier one set.
Scanned(l, sums, recs, idOf(_)) ==
    [clusters |-> [c \in {idOf(k) : k \in recs} |->
                      AsConvergenceRecord(l[LastKey({k \in recs : idOf(k) = c})])],
     hasSummary |-> sums # {},
     summary |-> IF sums = {} THEN AsConvergenceSummary(<<>>)
                 ELSE AsConvergenceSummary(l[LastKey(sums)])]

\* ReadStateConvergence: the range scan of "conv:state:<id>:"
ReadStateConvergence(l, stateID) ==
    Bind(normalizeIdentifier(stateID), LAMBDA sid :
        IF ~sid.ok THEN [ok |-> FALSE, err |-> "stateId is required"]
        ELSE Bind(RangeKeys(l, stateConvPrefix \o sid.v \o << ":" >>), LAMBDA keys :
             Bind({k \in keys : HasSuffix(k, SummarySuffix)}, LAMBDA sums :
             Bind({k \in keys \ sums : /\ Contains(k, ClusterInfix)
                                       /\ AsConvergenceRecord(l[k]).cluster_id # <<>>},
                  LAMBDA recs :
                    [ok |-> TRUE, err |-> "", state_id |-> sid.v] @@
                    Scanned(l, sums, recs,
                            LAMBDA k : AsConvergenceRecord(l[k]).cluster_id)))))

\* parseStateConvergenceKey: <<stateID, kind, clusterID>>
parseStateConvergenceKey(key) ==
    IF ~HasPrefix(key, stateConvPrefix) THEN << <<>>, "", <<>> >>
    ELSE LET parts == SplitColon(SubSeq(key, 2, Len(key)))
         IN  IF Len(parts) = 1 THEN << parts[1], "", <<>> >>
             ELSE IF parts[2] = << "summary" >> THEN << parts[1], "summary", <<>> >>
             ELSE IF parts[2] = << "cluster" >> /\ Len(parts) >= 3
                  THEN << parts[1], "cluster", JoinColon(SubSeq(parts, 3, Len(parts))) >>
             ELSE << parts[1], "", <<>> >>

\* ListStateConvergence: one entry per state id parsed from a key
ListStateConvergence(l) ==
    Bind([k \in RangeKeys(l, stateConvPrefix) |-> parseStateConvergenceKey(k)],
         LAMBDA parsed :
            [s \in {parsed[k][1] : k \in DOMAIN parsed} \ {<<>>} |->
                [state_id |-> s] @@
                Scanned(l,
                        {k \in DOMAIN parsed : parsed[k][1] = s /\ parsed[k][2] = "summary"},
                        {k \in DOMAIN parsed : parsed[k][1] = s /\ parsed[k][2] = "cluster"},
                        LAMBDA k : IF parsed[k][3] = <<>>
                                   THEN AsConvergenceRecord(l[k]).cluster_id
                                   ELSE parsed[k][3])])

\* parseNationConvergenceKey: <<kind, stateID>>
parseNationConvergenceKey(key) ==
    IF ~HasPrefix(key, nationConvPrefix) THEN << "", <<>> >>
    ELSE LET parts == SplitColon(SubSeq(key, 2, Len(key)))
         IN  IF parts[1] = << "summary" >> THEN << "summary", <<>> >>
             ELSE IF parts[1] = << "state" >> /\ Len(parts) >= 2
                  THEN << "state", JoinColon(SubSeq(parts, 2, Len(parts))) >>
             ELSE << "", <<>> >>

\* listNationConvergence (ReadNationConvergence and ListNationConvergence)
listNationConvergence(l) ==
    Bind([k \in RangeKeys(l, nationConvPrefix) |-> parseNationConvergenceKey(k)],
         LAMBDA parsed :
            Bind(Scanned(l,
                         {k \in DOMAIN parsed : parsed[k][1] = "summary"},
                         {k \in DOMAIN parsed : parsed[k][1] = "state"},
                         LAMBDA k : IF parsed[k][2] = <<>>
                                    THEN AsConvergenceRecord(l[k]).state_id
                                    ELSE parsed[k][2]),
                 LAMBDA got : [states |-> got.clusters, hasSummary |-> got.hasSummary,
                               summary |-> got.summary]))

(***************************************************************************)
(* Whitelist: chaincode page query and the gateway's hierarchy view         *)
(***************************************************************************)
defaultPageSize == 50

\* json.Unmarshal into WhitelistEntry
AsWhitelistEntry(v) ==
    [jwt_sub |-> StrField(v, "jwt_sub"), did |-> TxtField(v, "did"),
     node_id |-> TxtField(v, "node_id"), state |-> StrField(v, "state"),
     cluster |-> StrField(v, "cluster"), vc_hash |-> TxtField(v, "vc_hash"),
     public_key |-> TxtField(v, "public_key"),
     registered_at |-> TimeField(v, "registered_at")]

\* The scan loop of ListWhitelist over the keys still to visit, in key
\* order (the first half of the keys, then the rest): acc = [items, total]
\* so far.
RECURSIVE ScanWhitelist(_, _, _, _, _)
ScanWhitelist(l, keys, start, perPage, acc) ==
    IF keys = <<>> THEN acc
    ELSE IF Len(keys) > 1
    THEN Bind(ScanWhitelist(l, SubSeq(keys, 1, Len(keys) \div 2), start, perPage, acc),
              LAMBDA sofar :
                ScanWhitelist(l, SubSeq(keys, Len(keys) \div 2 + 1, Len(keys)),
                              start, perPage, sofar))
    ELSE LET entry == AsWhitelistEntry(l[Head(keys)])
             total == acc.total + 1
         IN  IF entry.jwt_sub = <<>> THEN acc
             ELSE IF total <= start \/ Len(acc.items) >= perPage
             THEN [acc EXCEPT !.total = total]
             ELSE [items |-> Append(acc.items, entry), total |-> total]

\* ListWhitelist(page, perPage) with both arguments given as numbers
ListWhitelist(l, page, perPage) ==
    IF page < 1 THEN [ok |-> FALSE, err |-> "page must be >= 1"]
    ELSE IF perPage < 1 THEN [ok |-> FALSE, err |-> "perPage must be >= 1"]
    ELSE Bind(Bind(SortStrings(RangeKeys(l, whitelistPrefix)), LAMBDA keys :
                   ScanWhitelist(l, keys, (page - 1) * perPage, perPage,
                                 [items |-> <<>>, total |-> 0])),
              LAMBDA got :
                [ok |-> TRUE, err |-> "", items |-> got.items, page |-> page,
                 per_page |-> perPage, total |-> got.total,
                 has_more |-> got.total > (page - 1) * perPage + Len(got.items)])

\* whitelist.Service.List
WhitelistList(l, page, perPage) ==
    IF page < 1 THEN [ok |-> FALSE, err |-> "page must be >= 1"]
    ELSE ListWhitelist(l, page, IF perPage < 1 THEN defaultPageSize ELSE perPage)

\* the group names ToHierarchy files an entry under
HierarchyState(e) ==
    IF TrimSpace(e.state) = <<>> THEN << "unknown" >> ELSE TrimSpace(e.state)

HierarchyCluster(e) ==
    IF TrimSpace(e.cluster) = <<>> THEN << "unassigned" >> ELSE TrimSpace(e.cluster)

ClusterNodes(group, clusterIDs) ==
    [m \in 1..Len(clusterIDs) |->
        [cluster_id |-> clusterIDs[m],
         nodes |-> SelectSeq(group, LAMBDA e : HierarchyCluster(e) = clusterIDs[m])]]

StateNodes(items, stateID) ==
    Bind(SelectSeq(items, LAMBDA e : HierarchyState(e) = stateID), LAMBDA group :
        [state_id |-> stateID,
         clusters |-> ClusterNodes(group,
             SortStrings({HierarchyCluster(group[i]) : i \in 1..Len(group)}))])

\* ListResult.ToHierarchy: states ascending, clusters ascending within a state
ToHierarchy(items) ==
    Bind(SortStrings({HierarchyState(items[i]) : i \in 1..Len(items)}), LAMBDA stateIDs :
        [n \in 1..Len(stateIDs) |-> StateNodes(items, stateIDs[n])])

\* whitelist.Service.Hierarchy when no write falls between its page fetches
RECURSIVE HierarchyFrom(_, _)
HierarchyFrom(l, page) ==
    Bind(WhitelistList(l, page, defaultPageSize), LAMBDA r :
        IF r.has_more THEN r.items \o HierarchyFrom(l, page + 1) ELSE r.items)

Hierarchy(l) == Bind(HierarchyFrom(l, 1), ToHierarchy)

(***************************************************************************)
(* Gateway convergence service: the read path                               *)
(***************************************************************************)
\* selectValue: the first value that is not blank
selectValue(first, second) ==
    IF ~Blank(first) THEN first ELSE IF ~Blank(second) THEN second ELSE <<>>

\* decodePayload: the ledger's payload field is a JSON string, never a JSON
\* object, so decoding it into a map fails and the raw text is wrapped.
decodePayload(raw) == [raw |-> raw]
NoPayload == <<>>

\* clustersForState: the clusters of the first hierarchy state matching
\* stateID without regard to case
clustersForState(h, stateID) ==
    Bind({n \in 1..Len(h) : EqualFold(h[n].state_id, stateID)}, LAMBDA hits :
        IF hits = {} THEN [ok |-> FALSE, ids |-> <<>>]
        ELSE Bind(h[CHOOSE m \in hits : \A o \in hits : m <= o].clusters, LAMBDA cs :
                [ok |-> TRUE,
                 ids |-> SortStrings({cs[m].cluster_id : m \in 1..Len(cs)})]))

\* latestClusterTime
latestClusterTime(clusters) ==
    IF clusters = <<>> THEN 0
    ELSE LET ts == {clusters[i].submitted_at : i \in 1..Len(clusters)}
         IN  CHOOSE t \in ts \cup {0} : \A u \in ts \cup {0} : u <= t

\* the status of one expected child: submitted when the ledger holds a record
\* under exactly this identifier
childStatus(records, id) ==
    IF id \in DOMAIN records
    THEN [id |-> id, is_converged |-> TRUE,
          submitted_at |-> records[id].submitted_at,
          source_id |-> records[id].source_id,
          payload |-> decodePayload(records[id].payload)]
    ELSE [id |-> id, is_converged |-> FALSE, submitted_at |-> 0,
          source_id |-> "", payload |-> NoPayload]

\* the response fields that tell convergence: from the summary when there is
\* one, else from the children
convergenceOf(hasSummary, summary, children) ==
    IF hasSummary
    THEN [is_converged |-> TRUE, converged_at |-> summary.declared_at,
          declared_by |-> summary.declared_by,
          summary_payload |-> decodePayload(summary.payload)]
    ELSE IF children # <<>> /\ \A i \in 1..Len(children) : children[i].is_converged
    THEN [is_converged |-> TRUE, converged_at |-> latestClusterTime(children),
          declared_by |-> "", summary_payload |-> NoPayload]
    ELSE [is_converged |-> FALSE, converged_at |-> 0,
          declared_by |-> "", summary_payload |-> NoPayload]

\* stateStatusFromLedger, given the hierarchy h its Hierarchy call returned
stateStatusOver(h, entry) ==
    Bind(clustersForState(h, entry.state_id), LAMBDA expected :
        IF ~expected.ok
        THEN [ok |-> FALSE, err |-> "state not found in whitelist"]
        ELSE Bind([i \in 1..Len(expected.ids) |->
                      childStatus(entry.clusters, expected.ids[i])],
                  LAMBDA clusters :
                    [ok |-> TRUE, err |-> "", state_id |-> entry.state_id,
                     clusters |-> clusters] @@
                    convergenceOf(entry.hasSummary, entry.summary, clusters)))

\* stateStatusFromLedger when no write falls between its ledger reads
stateStatusFromLedger(l, entry) == stateStatusOver(Hierarchy(l), entry)

\* Service.StateStatus (tokenState: the state hint of the caller's token)
StateStatus(l, tokenState, stateID) ==
    Bind(selectValue(stateID, tokenState), LAMBDA sel :
        IF Blank(sel) THEN [ok |-> FALSE, err |-> "state_id is required"]
        ELSE Bind(ReadStateConvergence(l, sel), LAMBDA entry :
                IF ~entry.ok THEN [ok |-> FALSE, err |-> entry.err]
                ELSE stateStatusFromLedger(l, entry)))

\* Service.ListStateStatuses: the first failing state fails the whole list
ListStateStatuses(l) ==
    Bind(ListStateConvergence(l), LAMBDA raw :
        Bind([s \in DOMAIN raw |->
                 stateStatusFromLedger(l, [raw[s] EXCEPT !.state_id = s])],
             LAMBDA results :
                IF \E s \in DOMAIN results : ~results[s].ok
                THEN [ok |-> FALSE, err |-> "state not found in whitelist",
                      results |-> <<>>]
                ELSE [ok |-> TRUE, err |-> "", results |-> results]))

\* hierarchyStateIDs
hierarchyStateIDs(h) == SortStrings({h[n].state_id : n \in 1..Len(h)})

\* nationStatusFromLedger behind Service.NationStatus
NationStatus(l) ==
    Bind(listNationConvergence(l), LAMBDA entry :
        Bind(hierarchyStateIDs(Hierarchy(l)), LAMBDA stateIDs :
            Bind([i \in 1..Len(stateIDs) |-> childStatus(entry.states, stateIDs[i])],
                 LAMBDA states :
                    [ok |-> TRUE, err |-> "", states |-> states] @@
                    convergenceOf(entry.hasSummary, entry.summary, states))))

(***************************************************************************)
(* State machine.                                                           *)
(*   ledger : the world state                                               *)
(*   clock  : the time a transaction stamps its record with                 *)
(*   nops   : the number of requests served so far                          *)
(*   last   : the most recent request and its response                      *)
(*   hist   : history kept for stating properties -- the summary keys a     *)
(*            well-formed declaration was submitted for, the summary each   *)
(*            successful declaration stored, and the payload of the latest  *)
(*            successful child claim of each (scope, target, child), the    *)
(*            model record first stored under each key, the arguments of    *)
(*            the latest successful registration of each identity           *)
(*   reqs   : the declaration or bulk requests in flight at the gateway     *)
(***************************************************************************)
Subjects == { << "t1" >>, << "t2" >> }

\* enrollment material derived from the credential of a subject
NodeOf(sub) == IF sub = << "t1" >> THEN "n1" ELSE "n2"
ClientOf(sub) == sub

Payloads == { << "p1" >>, << "p2" >> }

\* a declaration may also arrive with a blank payload
DeclarePayloads == Payloads \cup { <<>> }

\* identifiers without delimiters, in both letter cases
PlainStateIds == { << "a" >>, << "B" >> }
PlainClusterIds == { << "a" >>, << "B" >> }

\* identifiers that contain the key layout's own delimiters
DelimStateIds ==
    { << "a" >>, << "a", ":", "cluster", ":", "b" >>, << "a", ":", "summary" >> }
DelimClusterIds ==
    { << "b" >>, << "b", ":", "summary" >>, << "b", ":", "cluster", ":", "b" >> }

NationTarget == << "nation" >>
NoResult == <<>>

\* a request: the operation, its caller, the normalized target and child it
\* names, the ledger key it addresses and its payload
Call(op, caller, target, child, key, payload) ==
    [op |-> op, caller |-> caller, target |-> target, child |-> child,
     key |-> key, payload |-> payload]

\* a request with its response r; prior tells what the history knew of the
\* key, res is what a query returned
Response(call, r, prior, res) ==
    call @@ [ok |-> r.ok, err |-> r.err, prior |-> prior, res |-> res]

\* the response to a query, which is also its outcome
Answer(op, target, result) ==
    Bind(result, LAMBDA res :
        Response(Call(op, <<>>, target, <<>>, <<>>, <<>>), res, "none", res))

\* the world state once the enrollment of a trainer has been mirrored to it
Enrolled(l, sub, state, cluster, now) ==
    RecordWhitelistEntry(
        RegisterTrainer(l, ClientOf(sub), "did", NodeOf(sub), "vc", "pk",
                        state, cluster, now).ledger,
        sub, "did", NodeOf(sub), state, cluster, "vc", "pk", now).ledger

\* nothing submitted yet
NoHistory ==
    [called |-> {}, first |-> <<>>, commits |-> <<>>, models |-> <<>>,
     registered |-> <<>>]

StartFrom(l, h) ==
    /\ ledger = l
    /\ clock = 1
    /\ nops = 0
    /\ last = Response(Call("init", <<>>, <<>>, <<>>, <<>>, <<>>),
                       [ok |-> TRUE, err |-> ""], "none", NoResult)
    /\ hist = h
    /\ reqs = <<>>

Start(l) == StartFrom(l, NoHistory)

\* a fresh channel
Init == Start(<<>>)

\* a channel on which the gateway has bootstrapped trainer t1 of cluster b, state a
InitEnrolled == Start(Enrolled(<<>>, << "t1" >>, << "a" >>, << "b" >>, 1))

\* time passes between transactions
Tick ==
    /\ clock < MaxClock
    /\ clock' = clock + 1
    /\ UNCHANGED <<ledger, nops, last, hist, reqs>>

\* Invoke RegisterTrainer, signed by the identity of the subject
EnrollTrainer(sub, state, cluster) ==
    LET r == RegisterTrainer(ledger, ClientOf(sub), "did", NodeOf(sub), "vc", "pk",
                             state, cluster, clock)
    IN  /\ nops < MaxOps
        /\ nops' = nops + 1
        /\ ledger' = r.ledger
        /\ last' = Response(Call("RegisterTrainer", ClientOf(sub), state, cluster,
                                 trainerKey(ClientOf(sub)), <<>>), r, "none", NoResult)
        /\ UNCHANGED <<clock, hist, reqs>>

\* Invoke RecordWhitelistEntry for the subject
MirrorWhitelist(sub, state, cluster) ==
    LET r == RecordWhitelistEntry(ledger, sub, "did", NodeOf(sub), state, cluster,
                                  "vc", "pk", clock)
    IN  /\ nops < MaxOps
        /\ nops' = nops + 1
        /\ ledger' = r.ledger
        /\ last' = Response(Call("RecordWhitelistEntry", sub, state, cluster,
                                 whitelistKey(sub), <<>>), r, "none", NoResult)
        /\ UNCHANGED <<clock, hist, reqs>>

\* the history after a child claim was submitted
Committed(scope, target, child, payload, r) ==
    IF r.ok
    THEN [hist EXCEPT !.commits = PutState(@, << scope, target, child >>, payload)]
    ELSE hist

\* Invoke CommitStateClusterConvergence
CommitStateCluster(client, stateID, clusterID, payload) ==
    LET r   == CommitStateClusterConvergence(ledger, client, stateID, clusterID,
                                             payload, clock)
        sid == normalizeIdentifier(stateID).v
        cid == normalizeIdentifier(clusterID).v
    IN  /\ nops < MaxOps
        /\ nops' = nops + 1
        /\ ledger' = r.ledger
        /\ last' = Response(Call("CommitStateClusterConvergence", client, sid, cid,
                                 stateClusterKey(sid, cid), payload), r, "none", NoResult)
        /\ hist' = Committed("state", sid, cid, payload, r)
        /\ UNCHANGED <<clock, reqs>>

\* Invoke CommitNationStateConvergence
CommitNationState(client, stateID, payload) ==
    LET r   == CommitNationStateConvergence(ledger, client, stateID, payload, clock)
        sid == normalizeIdentifier(stateID).v
    IN  /\ nops < MaxOps
        /\ nops' = nops + 1
        /\ ledger' = r.ledger
        /\ last' = Response(Call("CommitNationStateConvergence", client, NationTarget, sid,
                                 nationStateKey(sid), payload), r, "none", NoResult)
        /\ hist' = Committed("nation", NationTarget, sid, payload, r)
        /\ UNCHANGED <<clock, reqs>>

\* what the history knows of a summary key when a declaration for it arrives:
\* "invalid" marks a call by an unauthorized caller or without a target
Prior(key, wellFormed) ==
    IF ~wellFormed THEN "invalid"
    ELSE IF key \in DOMAIN hist.first THEN "won"
    ELSE IF key \in hist.called THEN "called"
    ELSE "none"

\* the history after a declaration was submitted
Declared(key, wellFormed, r) ==
    [hist EXCEPT !.called = IF wellFormed THEN @ \cup {key} ELSE @,
                 !.first = IF r.ok THEN PutState(@, key, r.ledger[key]) ELSE @]

\* Invoke DeclareStateConvergence
DeclareState(client, stateID, payload) ==
    LET r   == DeclareStateConvergence(ledger, client, stateID, payload, clock)
        sid == normalizeIdentifier(stateID)
        key == stateSummaryKey(sid.v)
        wellFormed == requireAuthorizedTrainer(ledger, client) /\ sid.ok
    IN  /\ nops < MaxOps
        /\ nops' = nops + 1
        /\ ledger' = r.ledger
        /\ last' = Response(Call("DeclareStateConvergence", client, sid.v, <<>>, key,
                                 payload), r, Prior(key, wellFormed), NoResult)
        /\ hist' = Declared(key, wellFormed, r)
        /\ UNCHANGED <<clock, reqs>>

\* Invoke DeclareNationConvergence
DeclareNation(client, payload) ==
    LET r == DeclareNationConvergence(ledger, client, payload, clock)
        wellFormed == requireAuthorizedTrainer(ledger, client)
    IN  /\ nops < MaxOps
        /\ nops' = nops + 1
        /\ ledger' = r.ledger
        /\ last' = Response(Call("DeclareNationConvergence", client, NationTarget, <<>>,
                                 nationSummaryKey, payload), r,
                            Prior(nationSummaryKey, wellFormed), NoResult)
        /\ hist' = Declared(nationSummaryKey, wellFormed, r)
        /\ UNCHANGED <<clock, reqs>>

\* GET /state/convergence?stateId=...
GetStateStatus(stateID) ==
    /\ nops < MaxOps
    /\ nops' = nops + 1
    /\ last' = Answer("StateStatus", normalizeIdentifier(stateID).v,
                      StateStatus(ledger, <<>>, stateID))
    /\ UNCHANGED <<ledger, clock, hist, reqs>>

\* GET /nation/convergence
GetNationStatus ==
    /\ nops < MaxOps
    /\ nops' = nops + 1
    /\ last' = Answer("NationStatus", NationTarget, NationStatus(ledger))
    /\ UNCHANGED <<ledger, clock, hist, reqs>>

\* GET /state/convergence/list
GetStateList ==
    /\ nops < MaxOps
    /\ nops' = nops + 1
    /\ last' = Answer("ListStateStatuses", <<>>, ListStateStatuses(ledger))
    /\ UNCHANGED <<ledger, clock, hist, reqs>>

Requests(subs, wlStates, wlClusters, stateIds, clusterIds) ==
    \/ Tick
    \/ \E sub \in subs, st \in wlStates, cl \in wlClusters : EnrollTrainer(sub, st, cl)
    \/ \E sub \in subs, st \in wlStates, cl \in wlClusters : MirrorWhitelist(sub, st, cl)
    \/ \E sub \in subs, st \in stateIds, cl \in clusterIds, p \in Payloads :
           CommitStateCluster(ClientOf(sub), st, cl, p)
    \/ \E sub \in subs, st \in stateIds, p \in Payloads :
           CommitNationState(ClientOf(sub), st, p)
    \/ \E sub \in subs, st \in stateIds, p \in DeclarePayloads :
           DeclareState(ClientOf(sub), st, p)
    \/ \E sub \in subs, p \in DeclarePayloads : DeclareNation(ClientOf(sub), p)
    \/ \E st \in stateIds : GetStateStatus(st)
    \/ GetNationStatus
    \/ GetStateList

\* requests whose identifiers are plain words, in either letter case
Next == Requests(Subjects, PlainStateIds, PlainClusterIds, PlainStateIds, PlainClusterIds)

Spec == Init /\ [][Next]_vars

\* requests whose identifiers may contain ":", "cluster" and "summary"
NextDelim ==
    Requests({ << "t1" >> }, { << "a" >> }, { << "b" >> }, DelimStateIds, DelimClusterIds)

SpecDelim == InitEnrolled /\ [][NextDelim]_vars

(***************************************************************************)
(* Concurrent declarations at the gateway.  A request is received, then     *)
(* prepared by the handler's local checks, then submitted as one chaincode  *)
(* transaction; requests interleave freely between these steps.             *)
(***************************************************************************)
\* registry store lookup FindByJWTSub: the enrolled subjects
FindByJWTSub(l, sub) == Has(l, whitelistKey(sub))

\* marshalPayload: an absent or empty payload object is refused
marshalPayload(payload) ==
    IF payload = <<>> THEN [ok |-> FALSE, err |-> "payload is required", text |-> <<>>]
    ELSE [ok |-> TRUE, err |-> "", text |-> payload]

Refused(q, msg) == [q EXCEPT !.pc = "done", !.err = msg]
Prepared(q, args) == [q EXCEPT !.pc = "prepared", !.args = args]

\* Service.DeclareStateAll up to its invoke
DeclareStateAll(l, q) ==
    IF Blank(selectValue(q.state_id, q.token_state))
    THEN Refused(q, "state_id is required")
    ELSE IF ~marshalPayload(q.payload).ok THEN Refused(q, marshalPayload(q.payload).err)
    ELSE IF ~FindByJWTSub(l, q.sub) THEN Refused(q, "trainer not registered")
    ELSE Prepared(q, << selectValue(q.state_id, q.token_state),
                        marshalPayload(q.payload).text >>)

\* Service.DeclareNationAll up to its invoke
DeclareNationAll(l, q) ==
    IF ~marshalPayload(q.payload).ok THEN Refused(q, marshalPayload(q.payload).err)
    ELSE IF ~FindByJWTSub(l, q.sub) THEN Refused(q, "trainer not registered")
    ELSE Prepared(q, << marshalPayload(q.payload).text >>)

\* the chaincode transaction a prepared request submits
Submitted(l, q, now) ==
    IF q.scope = "state"
    THEN DeclareStateConvergence(l, ClientOf(q.sub), q.args[1], q.args[2], now)
    ELSE DeclareNationConvergence(l, ClientOf(q.sub), q.args[1], now)

\* POST /state/convergence/all or /nation/convergence/all arrives: the body
\* names stateID, the caller's token names tokenState
ReceiveDeclare(sub, scope, stateID, tokenState, payload) ==
    /\ Len(reqs) < MaxReqs
    /\ reqs' = Append(reqs, [sub |-> sub, scope |-> scope, state_id |-> stateID,
                             token_state |-> tokenState,
                             payload |-> payload, pc |-> "received", args |-> <<>>,
                             ok |-> FALSE, err |-> "", invokes |-> 0, at |-> 0])
    /\ UNCHANGED <<ledger, clock, nops, last, hist>>

\* the handler's checks before the ledger is involved
PrepareDeclare(i) ==
    /\ reqs[i].pc = "received"
    /\ reqs' = [reqs EXCEPT ![i] = IF @.scope = "state" THEN DeclareStateAll(ledger, @)
                                   ELSE DeclareNationAll(ledger, @)]
    /\ UNCHANGED <<ledger, clock, nops, last, hist>>

\* Service.invoke: one chaincode transaction, executed atomically
InvokeDeclare(i) ==
    LET r == Submitted(ledger, reqs[i], clock)
    IN  /\ reqs[i].pc = "prepared"
        /\ ledger' = r.ledger
        /\ reqs' = [reqs EXCEPT ![i] = [@ EXCEPT !.pc = "done", !.ok = r.ok,
                                                 !.err = r.err, !.at = clock,
                                                 !.invokes = @ + 1]]
        /\ UNCHANGED <<clock, nops, last, hist>>

\* a channel on which trainers t1 and t2 are enrolled and nothing is claimed
InitDeclare ==
    Start(Enrolled(Enrolled(<<>>, << "t1" >>, << "a" >>, << "b" >>, 1),
                   << "t2" >>, << "a" >>, << "b" >>, 1))

NextDeclare ==
    \/ Tick
    \/ \E sub \in Subjects, p \in DeclarePayloads :
           \/ ReceiveDeclare(sub, "state", << "a" >>, <<>>, p)
           \/ ReceiveDeclare(sub, "state", <<>>, << "a" >>, p)
           \/ ReceiveDeclare(sub, "state", <<>>, <<>>, p)
           \/ ReceiveDeclare(sub, "nation", <<>>, << "a" >>, p)
    \/ \E i \in 1..Len(reqs) : PrepareDeclare(i)
    \/ \E i \in 1..Len(reqs) : InvokeDeclare(i)

SpecDeclare == InitDeclare /\ [][NextDeclare]_vars

(***************************************************************************)
(* Properties                                                               *)
(***************************************************************************)
DeclareOps == { "DeclareStateConvergence", "DeclareNationConvergence" }
CommitOps == { "CommitStateClusterConvergence", "CommitNationStateConvergence" }
AlreadyConverged == "already declared converged"

\* the state identifiers a status may be asked for
AllStateIds == PlainStateIds \cup DelimStateIds

\* the clusters the whitelist expects under state s
ExpectedClusters(s) == clustersForState(Hierarchy(ledger), s)

\* a child claim of cluster c under state s has been accepted
ClaimedUnder(s, c) ==
    << "state", normalizeIdentifier(s).v, normalizeIdentifier(c).v >>
        \in DOMAIN hist.commits

\* the whitelist expects at least one cluster under s and each has claimed
AllExpectedClaimed(s) ==
    Bind(ExpectedClusters(s), LAMBDA e :
        /\ e.ok
        /\ e.ids # <<>>
        /\ \A i \in 1..Len(e.ids) : ClaimedUnder(s, e.ids[i]))

\* every registered trainer is mirrored by a whitelist entry of its subject
\* with the same state and cluster, as enrollment leaves the ledger
EnrollmentMirrored ==
    \A sub \in Subjects :
        Has(ledger, trainerKey(ClientOf(sub))) =>
            /\ Has(ledger, whitelistKey(sub))
            /\ StrField(ledger[whitelistKey(sub)], "state")
                  = StrField(ledger[trainerKey(ClientOf(sub))], "state")
            /\ StrField(ledger[whitelistKey(sub)], "cluster")
                  = StrField(ledger[trainerKey(ClientOf(sub))], "cluster")

\* a declaration for state s has succeeded
DeclaredFor(s) == stateSummaryKey(normalizeIdentifier(s).v) \in DOMAIN hist.first

\* C1: among the declarations of authorized callers for one scope-target, the
\* first (carrying a payload) succeeds, and every declaration after a
\* successful one fails as already converged, whatever its payload.
C1_FirstDeclareWinsLaterFail ==
    last.op \in DeclareOps =>
        /\ (last.prior = "none" /\ ~Blank(last.payload)) => last.ok
        /\ last.prior = "won" => (~last.ok /\ last.err = AlreadyConverged)

\* the summary key a prepared declaration request addresses
DeclareKey(q) ==
    IF q.scope = "state" THEN stateSummaryKey(normalizeIdentifier(q.args[1]).v)
    ELSE nationSummaryKey

InvokedFor(k) ==
    {i \in 1..Len(reqs) : reqs[i].invokes > 0 /\ DeclareKey(reqs[i]) = k}

\* the summary the transaction of request q stores
SummaryOf(q) ==
    [scope |-> q.scope,
     target_id |-> IF q.scope = "state" THEN normalizeIdentifier(q.args[1]).v
                   ELSE NationTarget,
     declared_by |-> NodeOf(q.sub), declared_at |-> q.at,
     payload |-> q.args[Len(q.args)]]

\* C2: under every interleaving of concurrent gateway declarations, each one
\* that passes the local checks is submitted as exactly one transaction, and
\* among those submitted for one scope-target exactly one succeeds, the others
\* fail as already converged, and the stored summary is the winner's.
C2_ExactlyOneWinner ==
    /\ \A i \in 1..Len(reqs) :
          reqs[i].invokes = IF reqs[i].pc = "done" /\ reqs[i].args # <<>> THEN 1 ELSE 0
    /\ \A i \in 1..Len(reqs) : reqs[i].invokes > 0 =>
          \E w \in InvokedFor(DeclareKey(reqs[i])) :
             /\ reqs[w].ok
             /\ \A j \in InvokedFor(DeclareKey(reqs[i])) \ {w} :
                   ~reqs[j].ok /\ reqs[j].err = AlreadyConverged
             /\ Has(ledger, DeclareKey(reqs[i]))
             /\ ledger[DeclareKey(reqs[i])] = SummaryOf(reqs[w])

\* three requests of different callers for one scope-target have all been
\* submitted, and the one received last has won
C2_Witness ==
    /\ Len(reqs) = 3
    /\ \A i \in 1..3 : reqs[i].invokes = 1 /\ DeclareKey(reqs[i]) = DeclareKey(reqs[1])
    /\ reqs[3].ok /\ ~reqs[1].ok /\ ~reqs[2].ok
    /\ reqs[3].sub # reqs[1].sub
    /\ reqs[3].payload # reqs[1].payload

\* C3: once a declaration has stored a summary, the value under its key stays
\* the one that declaration stored, whatever operations follow.
C3_SummaryNeverChanges ==
    \A k \in DOMAIN hist.first : Has(ledger, k) /\ ledger[k] = hist.first[k]

\* C4: for every state of the whitelist hierarchy with at least one expected
\* cluster, once a child claim has been accepted for each expected cluster and
\* no summary exists, the state's status is converged with every expected
\* cluster marked submitted.
C4_AllClaimedIsConverged ==
    Bind(Hierarchy(ledger), LAMBDA h :
        \A n \in 1..Len(h) :
            ( /\ EnrollmentMirrored
              /\ AllExpectedClaimed(h[n].state_id)
              /\ ~Has(ledger, stateSummaryKey(normalizeIdentifier(h[n].state_id).v)) )
            => Bind(StateStatus(ledger, <<>>, h[n].state_id), LAMBDA st :
                   /\ st.ok
                   /\ st.is_converged
                   /\ \A i \in 1..Len(st.clusters) : st.clusters[i].is_converged))

\* C5: right after a successful declaration the status of its scope-target is
\* converged, whether or not any child has claimed.
C5_DeclaredIsConverged ==
    (EnrollmentMirrored /\ last.op \in DeclareOps /\ last.ok) =>
        IF last.op = "DeclareStateConvergence"
        THEN Bind(StateStatus(ledger, <<>>, last.target), LAMBDA st :
                 st.ok /\ st.is_converged)
        ELSE NationStatus(ledger).is_converged

\* C6: the status of a state is converged only if a declaration for it has
\* succeeded, or its expected cluster set is non-empty and every expected
\* cluster has an accepted claim under it.
C6_ConvergedOnlyIfDeclaredOrAllClaimed ==
    \A s \in AllStateIds :
        Bind(StateStatus(ledger, <<>>, s), LAMBDA st :
            (st.ok /\ st.is_converged) => (DeclaredFor(s) \/ AllExpectedClaimed(s)))

\* the fields a status shows of the summary sm
ShowsSummary(st, sm) ==
    /\ st.converged_at = sm.declared_at
    /\ st.declared_by = sm.declared_by
    /\ st.summary_payload = decodePayload(sm.payload)

\* C7: when a summary exists for a scope-target and every expected child has
\* also claimed, the status shows the summary's declared-at, declared-by and
\* payload.
C7_SummaryWinsDisplay ==
    /\ \A s \in AllStateIds :
          (DeclaredFor(s) /\ AllExpectedClaimed(s)) =>
              Bind(StateStatus(ledger, <<>>, s), LAMBDA st :
                  st.ok => ShowsSummary(st,
                      AsConvergenceSummary(
                          ledger[stateSummaryKey(normalizeIdentifier(s).v)])))
    /\ nationSummaryKey \in DOMAIN hist.first =>
          ShowsSummary(NationStatus(ledger), AsConvergenceSummary(ledger[nationSummaryKey]))

\* C8: a state that the whitelist does not know but that has accepted claims
\* gets a status, with an empty expected set, instead of an error.
C8_UnknownTargetStatus ==
    \A s \in AllStateIds :
        ( /\ EnrollmentMirrored
          /\ ~ExpectedClusters(s).ok
          /\ \E t \in DOMAIN hist.commits :
                t[1] = "state" /\ t[2] = normalizeIdentifier(s).v )
        => Bind(StateStatus(ledger, <<>>, s), LAMBDA st :
               st.ok /\ st.clusters = <<>>)

\* C9: the list of state statuses never fails, and holds a status for every
\* state that has a claim or a summary on the ledger.
C9_ListCoversEveryState ==
    EnrollmentMirrored =>
    Bind(ListStateStatuses(ledger), LAMBDA r :
        /\ r.ok
        /\ \A t \in DOMAIN hist.commits : t[1] = "state" => t[2] \in DOMAIN r.results
        /\ \A k \in DOMAIN hist.first :
              hist.first[k].scope = "state" =>
                  hist.first[k].target_id \in DOMAIN r.results)

\* the ledger key of the child claim (scope, target, child)
ClaimKey(t) == IF t[1] = "state" THEN stateClusterKey(t[2], t[3]) ELSE nationStateKey(t[3])

\* C10: a child claim by an authorized caller with non-empty identifiers and
\* payload is accepted, and the ledger holds for every (scope, target, child)
\* ever claimed one record, carrying the payload of its latest accepted claim.
C10_OneRecordPerChildLatestPayload ==
    /\ ( /\ last.op \in CommitOps
         /\ requireAuthorizedTrainer(ledger, last.caller)
         /\ last.target # <<>> /\ last.child # <<>> /\ ~Blank(last.payload) )
       => last.ok
    /\ \A t \in DOMAIN hist.commits :
          /\ Has(ledger, ClaimKey(t))
          /\ AsConvergenceRecord(ledger[ClaimKey(t)]).scope = t[1]
          /\ AsConvergenceRecord(ledger[ClaimKey(t)]).state_id
                = (IF t[1] = "state" THEN t[2] ELSE t[3])
          /\ AsConvergenceRecord(ledger[ClaimKey(t)]).payload = hist.commits[t]

(***************************************************************************)
(* Scoped model references and the legacy data records                      *)
(***************************************************************************)
dataPrefix == << "data:" >>
modelPrefix == << "model:" >>

dataKey(id) == dataPrefix \o id

modelKey(id) == modelPrefix \o id

\* json.Unmarshal into ModelRecord / DataRecord
AsModelRecord(v) ==
    [id |-> StrField(v, "id"), layer |-> StrField(v, "layer"),
     scope_id |-> StrField(v, "scope_id"), owner |-> TxtField(v, "owner"),
     payload |-> StrField(v, "payload"), submitted_at |-> TimeField(v, "submitted_at")]

AsDataRecord(v) ==
    [id |-> StrField(v, "id"), owner |-> TxtField(v, "owner"),
     payload |-> StrField(v, "payload"), submitted_at |-> TimeField(v, "submitted_at")]

\* a transaction that also returns a record
Returned(l, rec) == [ok |-> TRUE, err |-> "", ledger |-> l, record |-> rec]
Refusal(l, msg) == [ok |-> FALSE, err |-> msg, ledger |-> l, record |-> <<>>]

\* CommitData
CommitData(l, clientID, dataID, payload, now) ==
    IF ~requireAuthorizedTrainer(l, clientID) THEN Refusal(l, "trainer not authorized")
    ELSE IF Blank(dataID) THEN Refusal(l, "data identifier is required")
    ELSE Bind([id |-> dataID, owner |-> TrainerNode(l, clientID),
               payload |-> payload, submitted_at |-> now],
              LAMBDA rec : Returned(PutState(l, dataKey(dataID), rec), rec))

\* ReadData
ReadData(l, clientID, dataID) ==
    IF ~requireAuthorizedTrainer(l, clientID) THEN Refusal(l, "trainer not authorized")
    ELSE IF Blank(dataID) THEN Refusal(l, "data identifier is required")
    ELSE IF ~Has(l, dataKey(dataID)) THEN Refusal(l, "record not found")
    ELSE Returned(l, AsDataRecord(l[dataKey(dataID)]))

\* CommitModel
CommitModel(l, clientID, dataID, layer, scopeID, payload, now) ==
    IF ~requireAuthorizedTrainer(l, clientID) THEN Refusal(l, "trainer not authorized")
    ELSE IF TrimSpace(dataID) = <<>> THEN Refusal(l, "data identifier is required")
    ELSE IF ToLower(TrimSpace(layer)) = <<>> THEN Refusal(l, "layer is required")
    ELSE IF TrimSpace(scopeID) = <<>> THEN Refusal(l, "scope identifier is required")
    ELSE Bind([id |-> TrimSpace(dataID), layer |-> ToLower(TrimSpace(layer)),
               scope_id |-> TrimSpace(scopeID), owner |-> TrainerNode(l, clientID),
               payload |-> payload, submitted_at |-> now],
              LAMBDA rec : Returned(PutState(l, modelKey(rec.id), rec), rec))

\* (a reader that serves a model to its owner only)
ReadModelOwnerOnly(l, clientID, dataID) ==
    IF ~requireAuthorizedTrainer(l, clientID) THEN Refusal(l, "trainer not authorized")
    ELSE IF Blank(dataID) THEN Refusal(l, "data identifier is required")
    ELSE IF ~Has(l, modelKey(dataID)) THEN Refusal(l, "model not found")
    ELSE IF AsModelRecord(l[modelKey(dataID)]).owner # TrainerNode(l, clientID)
    THEN Refusal(l, "trainer not authorized")
    ELSE Returned(l, AsModelRecord(l[modelKey(dataID)]))

\* ReadModel
ReadModel(l, clientID, dataID) ==
    IF ~requireAuthorizedTrainer(l, clientID) THEN Refusal(l, "trainer not authorized")
    ELSE IF Blank(dataID) THEN Refusal(l, "data identifier is required")
    ELSE IF ~Has(l, modelKey(dataID)) THEN Refusal(l, "model not found")
    ELSE Returned(l, AsModelRecord(l[modelKey(dataID)]))

\* strconv.Itoa / strconv.Atoi on the decimal text of a number, kept as a
\* one-element sequence; the empty sequence is the blank argument
Itoa(n) == << n >>
Atoi(a) == a[1]
BlankArg == <<>>

\* The scan loop of ListModels over the keys still to visit:
\* acc = [items, matched] so far.
RECURSIVE ScanModels(_, _, _, _, _, _, _)
ScanModels(l, keys, layerFilter, scopeFilter, startIndex, perPage, acc) ==
    IF keys = <<>> THEN acc
    ELSE LET record == AsModelRecord(l[Head(keys)])
             matched == acc.matched + 1
         IN  IF \/ record.id = <<>>
                \/ ~EqualFold(record.layer, layerFilter)
                \/ (scopeFilter # <<>> /\ ~EqualFold(record.scope_id, scopeFilter))
             THEN ScanModels(l, Tail(keys), layerFilter, scopeFilter, startIndex,
                             perPage, acc)
             ELSE IF matched <= startIndex \/ Len(acc.items) >= perPage
             THEN ScanModels(l, Tail(keys), layerFilter, scopeFilter, startIndex,
                             perPage, [acc EXCEPT !.matched = matched])
             ELSE ScanModels(l, Tail(keys), layerFilter, scopeFilter, startIndex,
                             perPage, [items |-> Append(acc.items, record),
                                       matched |-> matched])

\* the page ListModels builds once its arguments are parsed
ModelListPage(l, layerFilter, scopeFilter, page, perPage) ==
    Bind(ScanModels(l, SortStrings(RangeKeys(l, modelPrefix)), layerFilter,
                    scopeFilter, (page - 1) * perPage, perPage,
                    [items |-> <<>>, matched |-> 0]),
         LAMBDA got :
            [ok |-> TRUE, err |-> "", items |-> got.items, page |-> page,
             per_page |-> perPage, total |-> got.matched,
             has_more |-> got.matched > (page - 1) * perPage + Len(got.items)])

NoPage(msg) == [ok |-> FALSE, err |-> msg]

\* ListModels(layer, scopeID, pageArg, perPageArg)
ListModels(l, clientID, layer, scopeID, pageArg, perPageArg) ==
    IF ~requireAuthorizedTrainer(l, clientID) THEN NoPage("trainer not authorized")
    ELSE IF ToLower(TrimSpace(layer)) = <<>> THEN NoPage("layer is required")
    ELSE IF pageArg # BlankArg /\ Atoi(pageArg) < 1 THEN NoPage("page must be >= 1")
    ELSE IF perPageArg # BlankArg /\ Atoi(perPageArg) < 1
    THEN NoPage("perPage must be >= 1")
    ELSE ModelListPage(l, ToLower(TrimSpace(layer)), TrimSpace(scopeID),
                       IF pageArg = BlankArg THEN 1 ELSE Atoi(pageArg),
                       IF perPageArg = BlankArg THEN 10 ELSE Atoi(perPageArg))

\* ListWhitelist(pageArg, perPageArg)
ListWhitelistQuery(l, pageArg, perPageArg) ==
    ListWhitelist(l, IF pageArg = BlankArg THEN 1 ELSE Atoi(pageArg),
                  IF perPageArg = BlankArg THEN 50 ELSE Atoi(perPageArg))

(***************************************************************************)
(* Gateway list services                                                    *)
(***************************************************************************)
\* models.NewService: the layer slugs, and the page size of every listing
LayerSlugs == { << "cluster" >>, << "state" >>, << "nation" >> }
modelsPageSize == 10

\* models.Service.layerBySlug
layerBySlug(slug) ==
    LET key == ToLower(TrimSpace(slug))
    IN  IF key = <<>> THEN [ok |-> FALSE, err |-> "layer is required", slug |-> key]
        ELSE IF key \notin LayerSlugs
        THEN [ok |-> FALSE, err |-> "layer is not supported", slug |-> key]
        ELSE [ok |-> TRUE, err |-> "", slug |-> key]

\* models.Service.List
ModelsList(l, sub, layerSlug, scopeID, page) ==
    IF page < 1 THEN NoPage("page must be >= 1")
    ELSE IF ~layerBySlug(layerSlug).ok THEN NoPage(layerBySlug(layerSlug).err)
    ELSE IF ~FindByJWTSub(l, sub) THEN NoPage("trainer not registered")
    ELSE ListModels(l, ClientOf(sub), layerBySlug(layerSlug).slug, TrimSpace(scopeID),
                    Itoa(page), Itoa(modelsPageSize))

(***************************************************************************)
(* Listings: models are committed and whitelist entries recorded, and the   *)
(* chaincode and the gateway are asked for pages of them.                   *)
(***************************************************************************)
MaxPage == 2
MaxPerPage == 2

\* subjects and model identifiers; "~" is the highest character a key can
\* start with below the end of the scanned range
ListSubjects == { << "a" >>, << "b" >>, << "~", "a" >> }
ModelIds == { << "a" >>, << "b" >>, << "a", "b" >>, << "~", "a" >> }
ModelLayers == { << "cluster" >>, << "state" >> }
ModelScopes == { << "a" >>, << "B" >> }

PageNumbers == 0..MaxPage
PerPageNumbers == 0..MaxPerPage
PageArgs == { BlankArg } \cup { Itoa(n) : n \in PageNumbers }
PerPageArgs == { BlankArg } \cup { Itoa(n) : n \in PerPageNumbers }

\* the response to a list request, with the page arguments it carried
Listed(op, caller, filter, scope, pageArg, perPageArg, result) ==
    Bind(result, LAMBDA res :
        Response(Call(op, caller, filter, scope, <<>>, <<>>), res, "none", res)
            @@ [page_arg |-> pageArg, per_page_arg |-> perPageArg])

Served(response) ==
    /\ nops < MaxOps
    /\ nops' = nops + 1
    /\ last' = response
    /\ UNCHANGED <<ledger, clock, hist, reqs>>

\* Invoke CommitModel, signed by the identity of the subject
InvokeCommitModel(sub, dataID, layer, scopeID, payload) ==
    LET r == CommitModel(ledger, ClientOf(sub), dataID, layer, scopeID, payload, clock)
    IN  /\ nops < MaxOps
        /\ nops' = nops + 1
        /\ ledger' = r.ledger
        /\ last' = Response(Call("CommitModel", ClientOf(sub), dataID, scopeID,
                                 modelKey(TrimSpace(dataID)), payload),
                            r, "none", r.record)
        /\ hist' = IF r.ok /\ modelKey(r.record.id) \notin DOMAIN hist.models
                   THEN [hist EXCEPT !.models = PutState(@, modelKey(r.record.id), r.record)]
                   ELSE hist
        /\ UNCHANGED <<clock, reqs>>

\* Query ListModels / ListWhitelist on the chaincode
QueryListModels(sub, layer, scopeID, pageArg, perPageArg) ==
    Served(Listed("ListModels", ClientOf(sub), layer, scopeID, pageArg, perPageArg,
                  ListModels(ledger, ClientOf(sub), layer, scopeID, pageArg, perPageArg)))

QueryListWhitelist(pageArg, perPageArg) ==
    Served(Listed("ListWhitelist", <<>>, <<>>, <<>>, pageArg, perPageArg,
                  ListWhitelistQuery(ledger, pageArg, perPageArg)))

\* the gateway's list services
GetWhitelist(page, perPage) ==
    Served(Listed("whitelist.List", <<>>, <<>>, <<>>, Itoa(page), Itoa(perPage),
                  WhitelistList(ledger, page, perPage)))

GetModels(sub, layerSlug, scopeID, page) ==
    Served(Listed("models.List", sub, layerSlug, scopeID, Itoa(page), BlankArg,
                  ModelsList(ledger, sub, layerSlug, scopeID, page)))

NextList ==
    \/ \E sub \in ListSubjects : MirrorWhitelist(sub, << "a" >>, << "b" >>)
    \/ \E id \in ModelIds, layer \in ModelLayers, scope \in ModelScopes :
           InvokeCommitModel(<< "t1" >>, id, layer, scope, << "p1" >>)
    \/ \E layer \in ModelLayers, scope \in { <<>>, << "a" >> },
           pageArg \in PageArgs, perPageArg \in PerPageArgs :
           QueryListModels(<< "t1" >>, layer, scope, pageArg, perPageArg)
    \/ \E pageArg \in PageArgs, perPageArg \in PerPageArgs :
           QueryListWhitelist(pageArg, perPageArg)
    \/ \E page \in PageNumbers, perPage \in PerPageNumbers : GetWhitelist(page, perPage)
    \/ \E layer \in ModelLayers, page \in PageNumbers :
           GetModels(<< "t1" >>, layer, <<>>, page)

SpecList == InitEnrolled /\ [][NextList]_vars

(***************************************************************************)
(* Properties of the listings                                               *)
(***************************************************************************)
\* the records stored under a prefix, in key order
StoredUnder(l, prefix) ==
    Bind(SortStrings({k \in DOMAIN l : HasPrefix(k, prefix)}), LAMBDA keys :
        [i \in 1..Len(keys) |-> l[keys[i]]])

\* ... of which the key lies in the range [prefix, prefix + "~")
ScannedUnder(l, prefix) ==
    Bind(SortStrings(RangeKeys(l, prefix)), LAMBDA keys :
        [i \in 1..Len(keys) |-> l[keys[i]]])

WhitelistMatches(stored) ==
    SelectSeq([i \in 1..Len(stored) |-> AsWhitelistEntry(stored[i])],
              LAMBDA e : e.jwt_sub # <<>>)

ModelMatches(stored, layer, scope) ==
    SelectSeq([i \in 1..Len(stored) |-> AsModelRecord(stored[i])],
              LAMBDA m : /\ m.id # <<>>
                         /\ EqualFold(m.layer, layer)
                         /\ (scope = <<>> \/ EqualFold(m.scope_id, scope)))

PageCount(M, P) == (M + P - 1) \div P

\* pages 1..ceil(M/P) of size P are the consecutive slices of all, and
\* has_more is true on each but the last
Paginates(all, P, PageOf(_)) ==
    \A i \in 1..PageCount(Len(all), P) :
        Bind(PageOf(i), LAMBDA pg :
            /\ pg.ok
            /\ pg.items = SubSeq(all, (i - 1) * P + 1,
                                 IF i * P < Len(all) THEN i * P ELSE Len(all))
            /\ pg.has_more = (i < PageCount(Len(all), P)))

PaginatesAll(whitelisted, models) ==
    \A P \in 1..MaxPerPage :
        /\ Paginates(WhitelistMatches(whitelisted), P,
                     LAMBDA i : ListWhitelistQuery(ledger, Itoa(i), Itoa(P)))
        /\ \A layer \in ModelLayers, scope \in { <<>> } \cup ModelScopes :
              Paginates(ModelMatches(models, layer, scope), P,
                        LAMBDA i : ListModels(ledger, << "t1" >>, layer, scope,
                                              Itoa(i), Itoa(P)))

\* C11: for every page size P >= 1, pages 1..ceil(M/P) of ListWhitelist and
\* of ListModels are the consecutive slices of the M stored records that
\* pass the filter, in key order, with has_more true on all but the last.
C11_PagesCoverFilteredSequence ==
    PaginatesAll(StoredUnder(ledger, whitelistPrefix), StoredUnder(ledger, modelPrefix))

\* the same over the records whose key the range scan reaches
PagesCoverScannedSequence ==
    PaginatesAll(ScannedUnder(ledger, whitelistPrefix), ScannedUnder(ledger, modelPrefix))

ListOps == {"ListModels", "ListWhitelist", "whitelist.List", "models.List"}

\* C12: a list request whose page or perPage is a number below 1 is
\* answered with an error, never with a page.
C12_BadPageArgsRejected ==
    (/\ last.op \in ListOps
     /\ \/ (last.page_arg # BlankArg /\ Atoi(last.page_arg) < 1)
        \/ (last.per_page_arg # BlankArg /\ Atoi(last.per_page_arg) < 1))
        => ~last.ok

(***************************************************************************)
(* Registry: single and bulk enrollment requests                            *)
(***************************************************************************)
\* a text of at most one token, as the chaincode transactions take it
Txt(t) == IF t = <<>> THEN "" ELSE t[1]

\* registerRequest.requestedSubject / fallbackSubject / stateValue / clusterValue
requestedSubject(r) ==
    IF TrimSpace(r.jwt_sub) # <<>> THEN TrimSpace(r.jwt_sub)
    ELSE IF TrimSpace(r.subject) # <<>> THEN TrimSpace(r.subject)
    ELSE <<>>

fallbackSubject(r) ==
    IF requestedSubject(r) # <<>> THEN requestedSubject(r)
    ELSE IF TrimSpace(r.nodeId) # <<>> THEN TrimSpace(r.nodeId)
    ELSE IF TrimSpace(r.did) # <<>> THEN TrimSpace(r.did)
    ELSE <<>>

stateValue(r) ==
    IF TrimSpace(r.state_id) # <<>> THEN TrimSpace(r.state_id)
    ELSE IF TrimSpace(r.state) # <<>> THEN TrimSpace(r.state)
    ELSE <<>>

clusterValue(r) ==
    IF TrimSpace(r.cluster_id) # <<>> THEN TrimSpace(r.cluster_id)
    ELSE IF TrimSpace(r.cluster) # <<>> THEN TrimSpace(r.cluster)
    ELSE <<>>

\* registerRequest.toInput
toInput(r) ==
    [DID |-> r.did, NodeID |-> r.nodeId, State |-> stateValue(r),
     Cluster |-> clusterValue(r), VC |-> r.vc,
     PublicKey |-> IF r.public_key = <<>> THEN r.publicKey ELSE r.public_key,
     JWTSubject |-> requestedSubject(r)]

\* the subjects for which Fabric signing material is provisioned
ProvisionedSubjects == { << "a" >>, << "b" >> }

\* registry.Service.Register, by the steps the specification gives for it:
\* field validation, credential check, identity resolution, the ledger
\* registration, and the whitelist mirror.
RegisterRefused(l, code, msg) ==
    [ok |-> FALSE, code |-> code, msg |-> msg, ledger |-> l, record |-> <<>>]

Register(l, subject, input, now) ==
    IF \/ Blank(input.DID) \/ Blank(input.NodeID) \/ input.VC = ""
       \/ Blank(input.PublicKey) \/ Blank(input.State) \/ Blank(input.Cluster)
    THEN RegisterRefused(l, 400, "missing field")
    ELSE IF input.VC # "vc" THEN RegisterRefused(l, 403, "credential rejected")
    ELSE IF ToLower(subject) \notin ProvisionedSubjects
    THEN RegisterRefused(l, 500, "fabric identity missing")
    ELSE Bind(RegisterTrainer(l, ClientOf(ToLower(subject)), Txt(input.DID),
                              Txt(input.NodeID), input.VC, Txt(input.PublicKey),
                              input.State, input.Cluster, now),
         LAMBDA reg :
            IF ~reg.ok THEN RegisterRefused(l, 500, reg.err)
            ELSE Bind(RecordWhitelistEntry(reg.ledger, subject, Txt(input.DID),
                                           Txt(input.NodeID), input.State,
                                           input.Cluster, input.VC,
                                           Txt(input.PublicKey), now),
                 LAMBDA wl :
                    IF ~wl.ok THEN RegisterRefused(reg.ledger, 500, wl.err)
                    ELSE [ok |-> TRUE, code |-> 200, msg |-> "", ledger |-> wl.ledger,
                          record |-> [JWTSub |-> ToLower(subject),
                                      FabricClientID |-> ClientOf(ToLower(subject)),
                                      VCHash |-> input.VC, DID |-> input.DID,
                                      NodeID |-> input.NodeID, State |-> input.State,
                                      Cluster |-> input.Cluster,
                                      RegisteredAt |-> now]]))

\* one entry of the bulk response
bulkRegisterResult(did, nodeId, jwtSub, state, cluster, status, error, code) ==
    [did |-> did, nodeId |-> nodeId, jwt_sub |-> jwtSub, state |-> state,
     cluster |-> cluster, status |-> status, error |-> error, status_code |-> code]

\* a handler that always answers 200
bulkStatusCodeAlwaysOK(hasError) == 200

\* the response code of handleBulkRegister once the loop has ended
bulkStatusCode(hasError) == IF hasError THEN 207 ELSE 200

\* handleBulkRegister: one iteration of the loop over the payloads, for the
\* request q = [payloads, next, results, has_error, pc, code]
\* (a handler that gives up at the first failed entry)
BulkAppendAborting(q, l, failed, result) ==
    [q |-> [q EXCEPT !.next = IF failed THEN Len(q.payloads) + 1 ELSE q.next + 1,
                     !.results = Append(q.results, result),
                     !.has_error = q.has_error \/ failed],
     ledger |-> l]

BulkAppend(q, l, failed, result) ==
    [q |-> [q EXCEPT !.next = q.next + 1,
                     !.results = Append(q.results, result),
                     !.has_error = q.has_error \/ failed],
     ledger |-> l]

bulkIteration(q, l, now) ==
    LET payload == q.payloads[q.next]
        given == toInput(payload)
        input == IF given.JWTSubject = <<>>
                 THEN [given EXCEPT !.JWTSubject = fallbackSubject(payload)]
                 ELSE given
        subject == TrimSpace(input.JWTSubject)
    IN  IF subject = <<>>
        THEN BulkAppend(q, l, TRUE,
                 bulkRegisterResult(payload.did, payload.nodeId, <<>>, <<>>, <<>>, "error",
                     "subject could not be determined for this entry", 400))
        ELSE Bind(Register(l, subject, input, now), LAMBDA reg :
                IF ~reg.ok
                THEN BulkAppend(q, l, TRUE,
                         bulkRegisterResult(payload.did, payload.nodeId, subject, <<>>,
                                            <<>>, "error", reg.msg, reg.code))
                ELSE BulkAppend(q, reg.ledger, FALSE,
                         bulkRegisterResult(reg.record.DID, reg.record.NodeID,
                                            reg.record.JWTSub, reg.record.State,
                                            reg.record.Cluster, "ok", "", 0)))

(***************************************************************************)
(* Enrollment requests at the gateway                                       *)
(***************************************************************************)
MaxBatch == 3
MaxBulkReqs == 1

RegisterRequest(did, nodeId, jwtSub, stateId, vc) ==
    [did |-> did, nodeId |-> nodeId, vc |-> vc, public_key |-> << "b" >>,
     publicKey |-> <<>>, jwt_sub |-> jwtSub, subject |-> <<>>, state |-> <<>>,
     state_id |-> stateId, cluster |-> << "b" >>, cluster_id |-> <<>>]

\* a valid entry naming its subject, a valid one found by its node id, one
\* whose credential does not verify, one without any subject, one without state
BulkItems ==
    { RegisterRequest(<< "A" >>, << "a" >>, << "a" >>, << "a" >>, "vc"),
      RegisterRequest(<< "B" >>, << "b" >>, <<>>, << "a" >>, "vc"),
      RegisterRequest(<< "A" >>, << "a" >>, << "a" >>, << "a" >>, "bad"),
      RegisterRequest(<<>>, << " " >>, <<>>, << "a" >>, "vc"),
      RegisterRequest(<< "B" >>, << "b" >>, <<>>, <<>>, "vc") }

\* the entries a trainer submits for itself: a valid one, one that does not verify
SingleItems ==
    { RegisterRequest(<< "A" >>, << "a" >>, << "a" >>, << "a" >>, "vc"),
      RegisterRequest(<< "A" >>, << "a" >>, << "a" >>, << "a" >>, "bad") }

Batches == UNION { [1..n -> BulkItems] : n \in 0..MaxBatch }

\* handleBulkRegister: the body is decoded; an empty list is refused
ReceiveBulk(payloads) ==
    /\ Len(reqs) < MaxBulkReqs
    /\ reqs' = Append(reqs,
                  [payloads |-> payloads, next |-> 1, results |-> <<>>,
                   has_error |-> FALSE,
                   pc |-> IF payloads = <<>> THEN "done" ELSE "loop",
                   code |-> IF payloads = <<>> THEN 400 ELSE 0])
    /\ UNCHANGED <<ledger, clock, nops, last, hist>>

\* handleBulkRegister: the next payload is registered
BulkIterate(i) ==
    /\ reqs[i].pc = "loop"
    /\ reqs[i].next <= Len(reqs[i].payloads)
    /\ \E step \in { bulkIteration(reqs[i], ledger, clock) } :
          /\ reqs' = [reqs EXCEPT ![i] = step.q]
          /\ ledger' = step.ledger
    /\ UNCHANGED <<clock, nops, last, hist>>

\* handleBulkRegister: the results are written with the overall status
BulkRespond(i) ==
    /\ reqs[i].pc = "loop"
    /\ reqs[i].next > Len(reqs[i].payloads)
    /\ reqs' = [reqs EXCEPT ![i].pc = "done",
                            ![i].code = bulkStatusCode(reqs[i].has_error)]
    /\ UNCHANGED <<ledger, clock, nops, last, hist>>

\* handleRegister: one trainer enrolls under the subject of its token
RegisterOne(sub, payload) ==
    /\ nops < MaxOps
    /\ nops' = nops + 1
    /\ \E r \in { Register(ledger, sub, toInput(payload), clock) } :
          /\ ledger' = r.ledger
          /\ last' = Response(Call("Register", sub, stateValue(payload),
                                   clusterValue(payload), whitelistKey(sub), <<>>),
                              [ok |-> r.ok, err |-> r.msg], "none", r.record)
    /\ UNCHANGED <<clock, hist, reqs>>

NextBulk ==
    \/ Tick
    \/ \E payloads \in Batches : ReceiveBulk(payloads)
    \/ \E i \in 1..Len(reqs) : BulkIterate(i)
    \/ \E i \in 1..Len(reqs) : BulkRespond(i)
    \/ \E sub \in ProvisionedSubjects, payload \in SingleItems : RegisterOne(sub, payload)

SpecBulk == Init /\ [][NextBulk]_vars

(***************************************************************************)
(* Properties of bulk enrollment                                            *)
(***************************************************************************)
\* the subject the handler settles on for an entry
EntrySubject(payload) == TrimSpace(fallbackSubject(payload))

\* the entry, submitted alone on a fresh channel, would be registered
RegistersAlone(payload) ==
    /\ EntrySubject(payload) # <<>>
    /\ Register(<<>>, EntrySubject(payload),
                [toInput(payload) EXCEPT !.JWTSubject = fallbackSubject(payload)], 1).ok

StaysRegistered(payload) ==
    /\ Has(ledger, whitelistKey(EntrySubject(payload)))
    /\ Has(ledger, trainerKey(ClientOf(ToLower(EntrySubject(payload)))))

BulkAnswered(q) == q.pc = "done" /\ q.payloads # <<>>

\* C13: a bulk response holds one result per entry, in input order; an
\* entry is registered exactly when it would be registered alone, whatever
\* happened to the entries before it, and a registered entry stays on the
\* ledger whatever happens to the entries after it.
C13_BulkItemsIndependent ==
    \A i \in 1..Len(reqs) :
        /\ BulkAnswered(reqs[i]) => Len(reqs[i].results) = Len(reqs[i].payloads)
        /\ \A n \in 1..Len(reqs[i].results) :
              /\ n <= Len(reqs[i].payloads)
              /\ reqs[i].results[n].did = reqs[i].payloads[n].did
              /\ reqs[i].results[n].nodeId = reqs[i].payloads[n].nodeId
              /\ (reqs[i].results[n].status = "ok") = RegistersAlone(reqs[i].payloads[n])
              /\ reqs[i].results[n].status \in {"ok", "error"}
              /\ reqs[i].results[n].status = "ok" => StaysRegistered(reqs[i].payloads[n])

\* a batch of three whose second entry fails has been answered
C13_Witness ==
    \E i \in 1..Len(reqs) :
        /\ BulkAnswered(reqs[i])
        /\ Len(reqs[i].results) = 3
        /\ reqs[i].results[1].status = "ok"
        /\ reqs[i].results[2].status = "error"
        /\ reqs[i].results[3].status = "ok"

Faults == {"none", "identity", "read"}
errTrainerUnauthorized == "trainer not authorized"

\* requireAuthorizedTrainer: the error it returns, "" when there is none
requireAuthorizedTrainerErr(l, clientID, fault) ==
    IF fault = "identity" THEN "failed to resolve client identity"
    ELSE IF fault = "read" THEN "failed to read trainer record"
    ELSE IF ~Has(l, trainerKey(clientID)) THEN errTrainerUnauthorized
    ELSE IF TxtField(l[trainerKey(clientID)], "status") \notin AuthorizedSpellings
    THEN errTrainerUnauthorized
    ELSE ""

\* (a helper that hands every error of the lookup to its caller)
IsTrainerAuthorizedPropagating(l, clientID, fault) ==
    [value |-> requireAuthorizedTrainerErr(l, clientID, fault) = "",
     err |-> requireAuthorizedTrainerErr(l, clientID, fault)]

\* IsTrainerAuthorized
IsTrainerAuthorized(l, clientID, fault) ==
    LET err == requireAuthorizedTrainerErr(l, clientID, fault)
    IN  IF err = "" THEN [value |-> TRUE, err |-> ""]
        ELSE IF err = errTrainerUnauthorized THEN [value |-> FALSE, err |-> ""]
        ELSE [value |-> FALSE, err |-> err]

(***************************************************************************)
(* Trainers, scoped models and legacy data on one channel                   *)
(***************************************************************************)
\* the registration arguments a trainer may send: field names the one
\* argument left blank, "none" when all are given
BlankFields == {"none", "did", "nodeId", "vcHash", "publicKey"}
RegisterStates == { << "a" >>, << " ", "a" >>, << " " >> }
MirrorStates == { << "a" >>, << " " >> }
ArtifactIds == { << "a" >>, << "b" >> }

Given(field, blankField, value) == IF field = blankField THEN " " ELSE value

\* the arguments of a registration as the history keeps them
Registration(did, nodeID, vcHash, publicKey, state, cluster, now) ==
    [did |-> did, node_id |-> nodeID, vc_hash |-> vcHash, public_key |-> publicKey,
     state |-> state, cluster |-> cluster, at |-> now]

\* a channel on which trainer t1 of cluster b, state a has registered
InitArtifacts ==
    StartFrom(Enrolled(<<>>, << "t1" >>, << "a" >>, << "b" >>, 1),
              [NoHistory EXCEPT !.registered =
                  PutState(@, << "t1" >>,
                           Registration("did", "n1", "vc", "pk", << "a" >>, << "b" >>, 1))])

\* Invoke RegisterTrainer with arguments of which one may be blank
InvokeRegisterTrainer(sub, blankField, state, cluster) ==
    LET did == Given("did", blankField, "did")
        nodeID == Given("nodeId", blankField, NodeOf(sub))
        vcHash == Given("vcHash", blankField, "vc")
        publicKey == Given("publicKey", blankField, "pk")
        r == RegisterTrainer(ledger, ClientOf(sub), did, nodeID, vcHash, publicKey,
                             state, cluster, clock)
    IN  /\ nops < MaxOps
        /\ nops' = nops + 1
        /\ ledger' = r.ledger
        /\ last' = Response(Call("RegisterTrainer", ClientOf(sub), state, cluster,
                                 trainerKey(ClientOf(sub)), <<>>), r, "none", ledger)
        /\ hist' = IF r.ok
                   THEN [hist EXCEPT !.registered =
                            PutState(@, ClientOf(sub),
                                     Registration(did, nodeID, vcHash, publicKey,
                                                  state, cluster, clock))]
                   ELSE hist
        /\ UNCHANGED <<clock, reqs>>

\* Invoke CommitData
InvokeCommitData(sub, dataID, payload) ==
    LET r == CommitData(ledger, ClientOf(sub), dataID, payload, clock)
    IN  /\ nops < MaxOps
        /\ nops' = nops + 1
        /\ ledger' = r.ledger
        /\ last' = Response(Call("CommitData", ClientOf(sub), dataID, <<>>,
                                 dataKey(dataID), payload), r, "none", r.record)
        /\ UNCHANGED <<clock, hist, reqs>>

\* Query ReadModel / ReadData / IsTrainerAuthorized
QueryReadModel(sub, dataID) ==
    \E r \in { ReadModel(ledger, ClientOf(sub), dataID) } :
        Served(Response(Call("ReadModel", ClientOf(sub), dataID, <<>>,
                             modelKey(dataID), <<>>), r, "none", r.record))

QueryReadData(sub, dataID) ==
    \E r \in { ReadData(ledger, ClientOf(sub), dataID) } :
        Served(Response(Call("ReadData", ClientOf(sub), dataID, <<>>,
                             dataKey(dataID), <<>>), r, "none", r.record))

QueryIsTrainerAuthorized(sub, fault) ==
    \E r \in { IsTrainerAuthorized(ledger, ClientOf(sub), fault) } :
        Served(Response(Call("IsTrainerAuthorized", ClientOf(sub), <<>>, <<>>,
                             trainerKey(ClientOf(sub)), <<>>),
                        [ok |-> r.err = "", err |-> r.err], "none", r.value)
                   @@ [fault |-> fault])

NextArtifacts ==
    \/ Tick
    \/ \E sub \in Subjects, blankField \in BlankFields, state \in RegisterStates :
           InvokeRegisterTrainer(sub, blankField, state, << "b" >>)
    \/ \E sub \in Subjects, state \in MirrorStates : MirrorWhitelist(sub, state, << "b" >>)
    \/ \E sub \in Subjects, id \in ArtifactIds, layer \in ModelLayers, payload \in Payloads :
           InvokeCommitModel(sub, id, layer, << "a" >>, payload)
    \/ \E sub \in Subjects, id \in ArtifactIds, payload \in Payloads :
           InvokeCommitData(sub, id, payload)
    \/ \E sub \in Subjects, id \in ArtifactIds : QueryReadModel(sub, id)
    \/ \E sub \in Subjects, id \in ArtifactIds : QueryReadData(sub, id)
    \/ \E sub \in Subjects, fault \in Faults : QueryIsTrainerAuthorized(sub, fault)

SpecArtifacts == InitArtifacts /\ [][NextArtifacts]_vars

(***************************************************************************)
(* Properties of trainers, models and data                                  *)
(***************************************************************************)
\* C15: once CommitModel has stored a record under an id, the record stored
\* under that id never changes, whatever is invoked afterwards
C15_ModelImmutable ==
    \A k \in DOMAIN hist.models :
        Has(ledger, k) /\ ledger[k] = hist.models[k]

\* C16: ReadModel returns the stored model to every invoker with an
\* AUTHORIZED trainer record, whoever committed it, and fails for every
\* invoker without one
C16_ReadModelAnyAuthorized ==
    last.op = "ReadModel" =>
        /\ requireAuthorizedTrainer(ledger, last.caller) /\ Has(ledger, last.key)
              => last.ok /\ last.res = AsModelRecord(ledger[last.key])
        /\ ~requireAuthorizedTrainer(ledger, last.caller) => ~last.ok

\* an authorized trainer has read a model that another trainer committed
C16_Witness ==
    /\ last.op = "ReadModel"
    /\ last.ok
    /\ requireAuthorizedTrainer(ledger, last.caller)
    /\ last.res.owner # TrainerNode(ledger, last.caller)

\* C17: ReadData succeeds only for the trainer that committed the record
C17_ReadDataOwnerOnly ==
    last.op = "ReadData" /\ last.ok =>
        last.res.owner = TrainerNode(ledger, last.caller)

\* C18: IsTrainerAuthorized answers false without an error when the invoker
\* has no AUTHORIZED trainer record, true exactly when it has one, and
\* returns an error only when resolving the identity or reading the ledger
\* fails
C18_AuthorizedOrFalse ==
    last.op = "IsTrainerAuthorized" =>
        /\ last.err # "" <=> last.fault # "none"
        /\ last.res = TRUE <=>
              last.fault = "none" /\ requireAuthorizedTrainer(ledger, last.caller)
        /\ last.res \in BOOLEAN

\* an identity that never registered was told false, without an error
C18_Witness ==
    /\ last.op = "IsTrainerAuthorized"
    /\ last.fault = "none"
    /\ ~Has(ledger, trainerKey(last.caller))
    /\ last.res = FALSE
    /\ last.err = ""

TrainerKeys(l) == { k \in DOMAIN l : HasPrefix(k, trainerPrefix) }

\* the trainer record that a registration with these arguments leaves, the
\* state and cluster as normalised by norm
TrainerOf(clientID, reg, norm(_)) ==
    [client_id |-> clientID, did |-> reg.did, node_id |-> reg.node_id,
     state |-> norm(reg.state), cluster |-> norm(reg.cluster),
     vc_hash |-> reg.vc_hash, public_key |-> reg.public_key,
     status |-> "AUTHORIZED", registered_at |-> reg.at]

\* one record per registered identity, built from its latest registration
OneRecordPerIdentity(norm(_)) ==
    /\ TrainerKeys(ledger) = { trainerKey(c) : c \in DOMAIN hist.registered }
    /\ \A c \in DOMAIN hist.registered :
          ledger[trainerKey(c)] = TrainerOf(c, hist.registered[c], norm)

\* the last registration left every other key alone, and all of them when
\* it was rejected
RegistrationLocal ==
    last.op = "RegisterTrainer" =>
        /\ \A k \in (DOMAIN ledger \cup DOMAIN last.res) \ {last.key} :
              k \in DOMAIN ledger /\ k \in DOMAIN last.res /\ ledger[k] = last.res[k]
        /\ ~last.ok => ledger = last.res

Literal(s) == s

\* C19: (as stated) the ledger holds one Trainer record per identity, equal
\* to the arguments of its latest successful registration with status
\* AUTHORIZED; a registration alters no other record and a rejected one
\* writes nothing
C19_RecordEqualsArguments ==
    OneRecordPerIdentity(Literal) /\ RegistrationLocal

\* C19: (amended) the same, the state and cluster of the record being the
\* arguments with surrounding white space removed
C19_RecordEqualsTrimmedArguments ==
    OneRecordPerIdentity(TrimSpace) /\ RegistrationLocal

\* a registered identity registered again, with a state padded by white
\* space, and its record was replaced
C19_Witness ==
    /\ last.op = "RegisterTrainer"
    /\ last.ok
    /\ Has(last.res, last.key)
    /\ last.target = << " ", "a" >>
    /\ ledger[last.key] # last.res[last.key]

WhitelistKeys(l) == { k \in DOMAIN l : HasPrefix(k, whitelistPrefix) }

\* C20: every whitelist entry and trainer record stored by enrollment has
\* a non-empty state and a non-empty cluster
C20_StateAndClusterPresent ==
    \A k \in WhitelistKeys(ledger) \cup TrainerKeys(ledger) :
        /\ StrField(ledger[k], "state") # <<>>
        /\ StrField(ledger[k], "cluster") # <<>>

(***************************************************************************)
(* The two convergence scopes side by side: requests whose identifiers are  *)
(* the words of the key layout itself.                                      *)
(***************************************************************************)
ScopeStateIds == { << "a" >>, << "nation" >>, << "state" >> }
ScopeClusterIds == { << "b" >> }

NextScopes ==
    Requests({ << "t1" >> }, { << "a" >> }, { << "b" >> }, ScopeStateIds, ScopeClusterIds)

SpecScopes == InitEnrolled /\ [][NextScopes]_vars

StateScopeOps == { "CommitStateClusterConvergence", "DeclareStateConvergence" }
NationScopeOps == { "CommitNationStateConvergence", "DeclareNationConvergence" }

\* everything the nation-scope reads return, from chaincode and gateway
NationReads(l) == << listNationConvergence(l), NationStatus(l) >>

\* everything the state-scope reads return, from chaincode and gateway
StateReads(l) ==
    << [s \in ScopeStateIds |-> ReadStateConvergence(l, s)],
       [s \in ScopeStateIds |-> StateStatus(l, <<>>, s)],
       ListStateConvergence(l), ListStateStatuses(l) >>

\* C21: no state-scope commit or declaration changes what the nation-scope
\* reads return, and no nation-scope commit or declaration changes what any
\* state-scope read returns
C21_ScopesCannotCollide ==
    [][ /\ last'.op \in StateScopeOps => NationReads(ledger') = NationReads(ledger)
        /\ last'.op \in NationScopeOps => StateReads(ledger') = StateReads(ledger) ]_vars

\* a state-scope write for the state named "state" went through while the
\* nation scope held a claim
C21_Witness ==
    /\ last.op \in StateScopeOps
    /\ last.ok
    /\ last.target = << "state" >>
    /\ Has(ledger, last.key)
    /\ DOMAIN listNationConvergence(ledger).states # {}

(***************************************************************************)
(* The gateway's HTTP surface for convergence and the model service.  A     *)
(* request is authenticated, checked by its handler and service, and then   *)
(* at most handed to the peer; the response tells the status code and       *)
(* whether the peer was asked to invoke or to query.                        *)
(***************************************************************************)
MaxHttp == 2

RoleTrainer == "trainer"
RoleAggregator == "aggregator"
RoleCentralChecker == "central_checker"
RoleAdmin == "admin"
Roles == { RoleTrainer, RoleAggregator, RoleCentralChecker, RoleAdmin }

StatusCreated == 201
StatusOK == 200
StatusInternalServerError == 500

\* Authenticator.RequireAuth: the status it answers itself, 0 when the
\* request goes on to the handler
RequireAuth(role, allowed) ==
    IF role \notin Roles THEN 401
    ELSE IF allowed # {} /\ role \notin allowed THEN 403
    ELSE 0

\* what a service method decides before the peer is involved
LocalError(code, msg) == [refused |-> TRUE, code |-> code, err |-> msg]
LedgerCall(kind, identity, fn, args) ==
    [refused |-> FALSE, kind |-> kind, identity |-> identity, fn |-> fn, args |-> args]

\* Service.CommitStateCluster up to its invoke
ServiceCommitStateCluster(l, rq) ==
    IF Blank(selectValue(rq.state_id, rq.token_state))
    THEN LocalError(400, "state_id is required")
    ELSE IF Blank(selectValue(rq.cluster_id, rq.token_cluster))
    THEN LocalError(400, "cluster_id is required")
    ELSE IF ~marshalPayload(rq.payload).ok
    THEN LocalError(400, marshalPayload(rq.payload).err)
    ELSE IF ~FindByJWTSub(l, rq.sub) THEN LocalError(403, "trainer not registered")
    ELSE LedgerCall("invoke", ClientOf(rq.sub), "CommitStateClusterConvergence",
                    << selectValue(rq.state_id, rq.token_state),
                       selectValue(rq.cluster_id, rq.token_cluster),
                       marshalPayload(rq.payload).text >>)

\* Service.CommitNationState up to its invoke
ServiceCommitNationState(l, rq) ==
    IF Blank(selectValue(rq.state_id, rq.token_state))
    THEN LocalError(400, "state_id is required")
    ELSE IF ~marshalPayload(rq.payload).ok
    THEN LocalError(400, marshalPayload(rq.payload).err)
    ELSE IF ~FindByJWTSub(l, rq.sub) THEN LocalError(403, "trainer not registered")
    ELSE LedgerCall("invoke", ClientOf(rq.sub), "CommitNationStateConvergence",
                    << selectValue(rq.state_id, rq.token_state),
                       marshalPayload(rq.payload).text >>)

\* Service.DeclareStateAll / DeclareNationAll: the refusal or the invoke
DeclarePlan(q, fn) ==
    IF q.pc = "done"
    THEN LocalError(IF q.err = "trainer not registered" THEN 403 ELSE 400, q.err)
    ELSE LedgerCall("invoke", ClientOf(q.sub), fn, q.args)

\* models.Service.Commit up to its invoke; dataID is the generated id
ModelsCommit(l, rq, dataID) ==
    IF ~layerBySlug(rq.layer).ok
    THEN LocalError(IF layerBySlug(rq.layer).slug = <<>> THEN 400 ELSE 404,
                    layerBySlug(rq.layer).err)
    ELSE IF TrimSpace(rq.scope_id) = <<>>
    THEN LocalError(400, "scope identifier is required")
    ELSE IF rq.payload = <<>> THEN LocalError(400, "payload is required")
    ELSE IF ~FindByJWTSub(l, rq.sub) THEN LocalError(403, "trainer not registered")
    ELSE LedgerCall("invoke", ClientOf(rq.sub), "CommitModel",
                    << dataID, layerBySlug(rq.layer).slug, TrimSpace(rq.scope_id),
                       rq.payload >>)

\* models.Service.Retrieve up to its query
ModelsRetrieve(l, rq) ==
    IF TrimSpace(rq.data_id) = <<>> THEN LocalError(400, "data identifier is required")
    ELSE IF ~FindByJWTSub(l, rq.sub) THEN LocalError(403, "trainer not registered")
    ELSE LedgerCall("query", ClientOf(rq.sub), "ReadModel", << TrimSpace(rq.data_id) >>)

\* (a list service that leaves the page number to the chaincode)
ModelsListPlanUnchecked(l, rq) ==
    IF ~layerBySlug(rq.layer).ok
    THEN LocalError(IF layerBySlug(rq.layer).slug = <<>> THEN 400 ELSE 404,
                    layerBySlug(rq.layer).err)
    ELSE IF ~FindByJWTSub(l, rq.sub) THEN LocalError(403, "trainer not registered")
    ELSE LedgerCall("query", ClientOf(rq.sub), "ListModels",
                    << layerBySlug(rq.layer).slug, TrimSpace(rq.scope_id),
                       Itoa(rq.page), Itoa(modelsPageSize) >>)

\* models.Service.List up to its query
ModelsListPlan(l, rq) ==
    IF rq.page < 1 THEN LocalError(400, "page must be >= 1")
    ELSE IF ~layerBySlug(rq.layer).ok
    THEN LocalError(IF layerBySlug(rq.layer).slug = <<>> THEN 400 ELSE 404,
                    layerBySlug(rq.layer).err)
    ELSE IF ~FindByJWTSub(l, rq.sub) THEN LocalError(403, "trainer not registered")
    ELSE LedgerCall("query", ClientOf(rq.sub), "ListModels",
                    << layerBySlug(rq.layer).slug, TrimSpace(rq.scope_id),
                       Itoa(rq.page), Itoa(modelsPageSize) >>)

\* the chaincode function a call names, run on the world state
Chaincode(l, call, now) ==
    CASE call.fn = "CommitStateClusterConvergence" ->
            CommitStateClusterConvergence(l, call.identity, call.args[1], call.args[2],
                                          call.args[3], now)
      [] call.fn = "CommitNationStateConvergence" ->
            CommitNationStateConvergence(l, call.identity, call.args[1], call.args[2], now)
      [] call.fn = "DeclareStateConvergence" ->
            DeclareStateConvergence(l, call.identity, call.args[1], call.args[2], now)
      [] call.fn = "DeclareNationConvergence" ->
            DeclareNationConvergence(l, call.identity, call.args[1], now)
      [] call.fn = "CommitModel" ->
            CommitModel(l, call.identity, call.args[1], call.args[2], call.args[3],
                        call.args[4], now)
      [] call.fn = "ReadModel" -> ReadModel(l, call.identity, call.args[1])
      [] call.fn = "ListModels" ->
            ListModels(l, call.identity, call.args[1], call.args[2], call.args[3],
                       call.args[4])

\* the peer's faults: the command may fail before the chaincode runs
PeerFaults == { "none", "transport" }

\* runPeerCommand: the chaincode's answer, or the failure of the command
runPeerCommand(l, call, fault, now) ==
    IF fault # "none" THEN [ok |-> FALSE, err |-> "peer command failed"]
    ELSE Chaincode(l, call, now)

\* a response of the gateway
Outcome(code, msg, invoked, queried, l, res) ==
    [code |-> code, err |-> msg, invoked |-> invoked, queried |-> queried,
     ledger |-> l, res |-> res]

\* a service call carried through, and writeServiceError on its error: a
\* status error keeps its code, any other error is answered 500
Performed(l, plan, fault, now, success) ==
    IF plan.refused THEN Outcome(plan.code, plan.err, FALSE, FALSE, l, NoResult)
    ELSE Bind(runPeerCommand(l, plan, fault, now), LAMBDA r :
            Outcome(IF r.ok THEN success ELSE StatusInternalServerError,
                    r.err, plan.kind = "invoke", plan.kind = "query",
                    IF r.ok /\ "ledger" \in DOMAIN r THEN r.ledger ELSE l,
                    IF r.ok /\ plan.kind = "query" THEN r ELSE NoResult))

\* a handler's answer to a request that RequireAuth stopped, else go
Authenticated(l, rq, allowed, go) ==
    IF RequireAuth(rq.role, allowed) # 0
    THEN Outcome(RequireAuth(rq.role, allowed), "not allowed", FALSE, FALSE, l, NoResult)
    ELSE go

\* (a handler that leaves the role to RequireAuth)
handleStateConvergenceAnyRole(l, rq, fault, now) ==
    Authenticated(l, rq, Roles,
        Performed(l, ServiceCommitStateCluster(l, rq), fault, now, StatusCreated))

\* handleStateConvergence, POST
handleStateConvergence(l, rq, fault, now) ==
    Authenticated(l, rq, Roles,
        IF rq.role # RoleAggregator
        THEN Outcome(403, "only aggregators can submit convergence payloads",
                     FALSE, FALSE, l, NoResult)
        ELSE Performed(l, ServiceCommitStateCluster(l, rq), fault, now, StatusCreated))

\* handleNationConvergence, POST
handleNationConvergence(l, rq, fault, now) ==
    Authenticated(l, rq, Roles,
        IF rq.role # RoleAggregator
        THEN Outcome(403, "only aggregators can submit convergence payloads",
                     FALSE, FALSE, l, NoResult)
        ELSE Performed(l, ServiceCommitNationState(l, rq), fault, now, StatusCreated))

\* handleStateAll
handleStateAll(l, rq, fault, now) ==
    Authenticated(l, rq, { RoleCentralChecker },
        Performed(l, DeclarePlan(DeclareStateAll(l, rq), "DeclareStateConvergence"),
                  fault, now, StatusCreated))

\* handleNationAll
handleNationAll(l, rq, fault, now) ==
    Authenticated(l, rq, { RoleCentralChecker },
        Performed(l, DeclarePlan(DeclareNationAll(l, rq), "DeclareNationConvergence"),
                  fault, now, StatusCreated))

\* handleStateList: the first query is ListStateConvergence, the hierarchy
\* is queried for each state it names
handleStateList(l, rq, fault) ==
    Authenticated(l, rq, { RoleAdmin },
        IF fault # "none"
        THEN Outcome(StatusInternalServerError, "peer command failed",
                     FALSE, TRUE, l, NoResult)
        ELSE Bind(ListStateStatuses(l), LAMBDA r :
                Outcome(IF r.ok THEN StatusOK ELSE 400, r.err, FALSE, TRUE, l,
                        r.results)))

\* handleNationList
handleNationList(l, rq, fault) ==
    Authenticated(l, rq, { RoleAdmin },
        IF fault # "none"
        THEN Outcome(StatusInternalServerError, "peer command failed",
                     FALSE, TRUE, l, NoResult)
        ELSE Outcome(StatusOK, "", FALSE, TRUE, l, NationStatus(l)))

(***************************************************************************)
(* Requests to the gateway, answered one after the other                    *)
(***************************************************************************)
Blanks == <<>>

\* the identifier in the body and the hint in the token
StateArgs == { << << "a" >>, Blanks >>, << Blanks, << "a" >> >>, << Blanks, Blanks >> }
ClusterArgs == { << << "b" >>, Blanks >>, << Blanks, Blanks >> }
BodyPayloads == { << "p1" >>, Blanks }
LayerArgs == { << "cluster" >>, << "a" >>, Blanks }
ScopeArgs == { << "a" >>, Blanks }
DataArgs == { << "a" >>, Blanks }
HttpPages == { 0, 1 }

\* a request as the gateway receives it at time now
HttpRequest(route, role, sub, stateArg, clusterArg, payload, now) ==
    [route |-> route, role |-> role, sub |-> sub, scope |-> route, at |-> now,
     state_id |-> stateArg[1], token_state |-> stateArg[2],
     cluster_id |-> clusterArg[1], token_cluster |-> clusterArg[2],
     payload |-> payload, layer |-> Blanks, scope_id |-> Blanks, data_id |-> Blanks,
     page |-> 1, pc |-> "received", err |-> "", args |-> <<>>]

ModelRequest(route, sub, layer, scopeID, dataID, payload, page, now) ==
    [HttpRequest(route, RoleTrainer, sub, << Blanks, Blanks >>, << Blanks, Blanks >>,
                 payload, now)
        EXCEPT !.layer = layer, !.scope_id = scopeID, !.data_id = dataID, !.page = page]

\* the summary a declaration of rq would find in the way
SummaryKeyOf(rq) ==
    IF rq.route = "nation/convergence/all" THEN nationSummaryKey
    ELSE stateSummaryKey(normalizeIdentifier(selectValue(rq.state_id, rq.token_state)).v)

\* the gateway answers rq with out
Replied(rq, fault, out) ==
    /\ nops < MaxHttp
    /\ nops' = nops + 1
    /\ ledger' = out.ledger
    /\ last' = [op |-> rq.route, caller |-> rq.sub, role |-> rq.role, request |-> rq,
                fault |-> fault, ok |-> out.code < 300, code |-> out.code,
                err |-> out.err, invoked |-> out.invoked, queried |-> out.queried,
                had_summary |-> Has(ledger, SummaryKeyOf(rq)), res |-> out.res]
    /\ UNCHANGED <<clock, hist, reqs>>

PostStateConvergence(rq, fault) ==
    Replied(rq, fault, handleStateConvergence(ledger, rq, fault, clock))

PostNationConvergence(rq, fault) ==
    Replied(rq, fault, handleNationConvergence(ledger, rq, fault, clock))

PostStateAll(rq, fault) == Replied(rq, fault, handleStateAll(ledger, rq, fault, clock))

PostNationAll(rq, fault) == Replied(rq, fault, handleNationAll(ledger, rq, fault, clock))

GetStateConvergenceList(rq, fault) == Replied(rq, fault, handleStateList(ledger, rq, fault))

GetNationConvergenceList(rq, fault) == Replied(rq, fault, handleNationList(ledger, rq, fault))

PostModel(rq, dataID, fault) ==
    Replied(rq, fault, Performed(ledger, ModelsCommit(ledger, rq, dataID), fault, clock,
                                 StatusCreated))

GetModel(rq, fault) ==
    Replied(rq, fault, Performed(ledger, ModelsRetrieve(ledger, rq), fault, clock, StatusOK))

GetModelList(rq, fault) ==
    Replied(rq, fault, Performed(ledger, ModelsListPlan(ledger, rq), fault, clock, StatusOK))

NextHttp ==
    \E sub \in Subjects, fault \in PeerFaults :
        \/ \E role \in Roles, p \in BodyPayloads, st \in StateArgs :
              \/ \E cl \in ClusterArgs :
                    PostStateConvergence(
                        HttpRequest("state/convergence", role, sub, st, cl, p, clock), fault)
              \/ PostNationConvergence(
                    HttpRequest("nation/convergence", role, sub, st, << Blanks, Blanks >>, p, clock),
                    fault)
              \/ PostStateAll(
                    HttpRequest("state/convergence/all", role, sub, st,
                                << Blanks, Blanks >>, p, clock), fault)
        \/ \E role \in Roles, p \in BodyPayloads :
              PostNationAll(
                  HttpRequest("nation/convergence/all", role, sub, << Blanks, Blanks >>,
                              << Blanks, Blanks >>, p, clock), fault)
        \/ \E role \in Roles :
              \/ GetStateConvergenceList(
                    HttpRequest("state/convergence/list", role, sub, << Blanks, Blanks >>,
                                << Blanks, Blanks >>, Blanks, clock), fault)
              \/ GetNationConvergenceList(
                    HttpRequest("nation/convergence/list", role, sub, << Blanks, Blanks >>,
                                << Blanks, Blanks >>, Blanks, clock), fault)
        \/ \E layer \in LayerArgs, scopeID \in ScopeArgs :
              \/ \E p \in BodyPayloads, dataID \in ArtifactIds :
                    PostModel(ModelRequest("models/commit", sub, layer, scopeID, Blanks, p, 1, clock),
                              dataID, fault)
              \/ \E page \in HttpPages :
                    GetModelList(ModelRequest("models/list", sub, layer, scopeID, Blanks,
                                              Blanks, page, clock), fault)
        \/ \E dataID \in DataArgs :
              GetModel(ModelRequest("models/retrieve", sub, Blanks, Blanks, dataID, Blanks, 1, clock),
                       fault)

SpecHttp == InitEnrolled /\ [][NextHttp]_vars

(***************************************************************************)
(* Properties of the HTTP surface                                           *)
(***************************************************************************)
CommitRoutes == { "state/convergence", "nation/convergence" }
DeclareRoutes == { "state/convergence/all", "nation/convergence/all" }
ListRoutes == { "state/convergence/list", "nation/convergence/list" }
ModelRoutes == { "models/commit", "models/list", "models/retrieve" }

\* the request lacks what its operation requires, or its caller is not
\* enrolled at the gateway
LocallyInvalid(rq) ==
    \/ /\ rq.route \in CommitRoutes \cup { "state/convergence/all" }
       /\ TrimSpace(rq.state_id) = <<>> /\ TrimSpace(rq.token_state) = <<>>
    \/ /\ rq.route = "state/convergence"
       /\ TrimSpace(rq.cluster_id) = <<>> /\ TrimSpace(rq.token_cluster) = <<>>
    \/ rq.route = "models/commit" /\ TrimSpace(rq.scope_id) = <<>>
    \/ rq.route = "models/retrieve" /\ TrimSpace(rq.data_id) = <<>>
    \/ rq.route \in CommitRoutes \cup DeclareRoutes \cup { "models/commit" }
          /\ rq.payload = <<>>
    \/ rq.route = "models/list" /\ rq.page < 1
    \/ rq.route \in { "models/commit", "models/list" }
          /\ ToLower(TrimSpace(rq.layer)) \notin LayerSlugs
    \/ ~Has(ledger, whitelistKey(rq.sub))

C23_DuplicateDeclareIsConflict ==
    last.op \in DeclareRoutes /\ last.invoked /\ last.fault = "none" /\ last.had_summary
    => last.code # StatusInternalServerError

\* C24: child claims reach the ledger only from aggregators, declarations
\* only from central checkers, the list of all targets is served only to
\* admins; a request with another role causes no ledger call
C24_RoleGated ==
    /\ last.op \in CommitRoutes /\ last.role # RoleAggregator
          => ~last.invoked /\ ~last.queried /\ ~last.ok
    /\ last.op \in DeclareRoutes /\ last.role # RoleCentralChecker
          => ~last.invoked /\ ~last.queried /\ ~last.ok
    /\ last.op \in ListRoutes /\ last.role # RoleAdmin
          => ~last.invoked /\ ~last.queried /\ ~last.ok

\* a complete child claim of an enrolled caller whose role is trainer was
\* turned away
C24_Witness ==
    /\ last.op = "state/convergence"
    /\ last.role = RoleTrainer
    /\ ~LocallyInvalid(last.request)
    /\ last.code = 403
    /\ ~last.invoked

(***************************************************************************)
(* The legacy asset contract (SmartContract).  Its world state maps asset   *)
(* ids to assets; fault tells whether GetState fails in the transaction.    *)
(***************************************************************************)
Asset(id, color, size, owner, appraisedValue) ==
    [ID |-> id, Color |-> color, Size |-> size, Owner |-> owner,
     AppraisedValue |-> appraisedValue]

\* the assets InitLedger writes
InitialAssets ==
    { Asset("asset1", "blue", 5, "Tomoko", 300), Asset("asset2", "red", 5, "Brad", 400),
      Asset("asset3", "green", 10, "Jin Soo", 500), Asset("asset4", "yellow", 10, "Max", 600),
      Asset("asset5", "black", 15, "Adriana", 700),
      Asset("asset6", "white", 15, "Michel", 800) }

AssetFaults == { "none", "read" }

AssetFailed(l, msg, id) == [ok |-> FALSE, err |-> msg, about |-> id, ledger |-> l]
AssetDone(l) == [ok |-> TRUE, err |-> "", about |-> "", ledger |-> l]

\* SmartContract.InitLedger
AssetInitLedger(l) ==
    AssetDone([id \in DOMAIN l \cup { a.ID : a \in InitialAssets } |->
                  IF \E a \in InitialAssets : a.ID = id
                  THEN CHOOSE a \in InitialAssets : a.ID = id
                  ELSE l[id]])

\* SmartContract.AssetExists
AssetExists(l, id, fault) ==
    IF fault = "read"
    THEN [exists |-> FALSE, err |-> "failed to read from world state"]
    ELSE [exists |-> Has(l, id), err |-> ""]

\* (a CreateAsset that writes whatever is there)
CreateAssetOverwriting(l, id, color, size, owner, appraisedValue, fault) ==
    IF AssetExists(l, id, fault).err # ""
    THEN AssetFailed(l, AssetExists(l, id, fault).err, "")
    ELSE AssetDone(PutState(l, id, Asset(id, color, size, owner, appraisedValue)))

\* SmartContract.CreateAsset
CreateAsset(l, id, color, size, owner, appraisedValue, fault) ==
    IF AssetExists(l, id, fault).err # ""
    THEN AssetFailed(l, AssetExists(l, id, fault).err, "")
    ELSE IF AssetExists(l, id, fault).exists
    THEN AssetFailed(l, "the asset %s already exists", id)
    ELSE AssetDone(PutState(l, id, Asset(id, color, size, owner, appraisedValue)))

\* SmartContract.UpdateAsset
UpdateAsset(l, id, color, size, owner, appraisedValue, fault) ==
    IF AssetExists(l, id, fault).err # ""
    THEN AssetFailed(l, AssetExists(l, id, fault).err, "")
    ELSE IF ~AssetExists(l, id, fault).exists
    THEN AssetFailed(l, "the asset %s does not exist", id)
    ELSE AssetDone(PutState(l, id, Asset(id, color, size, owner, appraisedValue)))

\* SmartContract.DeleteAsset
DeleteAsset(l, id, fault) ==
    IF AssetExists(l, id, fault).err # ""
    THEN AssetFailed(l, AssetExists(l, id, fault).err, "")
    ELSE IF ~AssetExists(l, id, fault).exists
    THEN AssetFailed(l, "the asset %s does not exist", id)
    ELSE AssetDone([k \in DOMAIN l \ {id} |-> l[k]])

AssetIds == { "asset1", "asset7" }
AssetColors == { "blue", "red" }
AssetOwners == { "Tomoko", "Brad" }
AssetSizes == { 5 }
AssetValues == { 300 }

\* the contract answers a transaction on asset id with r; before is the
\* world state it ran on
AssetAnswered(op, id, asset, fault, r, before) ==
    /\ nops < MaxOps
    /\ nops' = nops + 1
    /\ ledger' = r.ledger
    /\ last' = [op |-> op, target |-> id, asset |-> asset, fault |-> fault,
                ok |-> r.ok, err |-> r.err, about |-> r.about, res |-> before]
    /\ UNCHANGED <<clock, hist, reqs>>

InvokeInitLedger ==
    AssetAnswered("InitLedger", "", <<>>, "none", AssetInitLedger(ledger), ledger)

InvokeCreateAsset(id, color, size, owner, appraisedValue, fault) ==
    AssetAnswered("CreateAsset", id, Asset(id, color, size, owner, appraisedValue), fault,
                  CreateAsset(ledger, id, color, size, owner, appraisedValue, fault), ledger)

InvokeUpdateAsset(id, color, size, owner, appraisedValue, fault) ==
    AssetAnswered("UpdateAsset", id, Asset(id, color, size, owner, appraisedValue), fault,
                  UpdateAsset(ledger, id, color, size, owner, appraisedValue, fault), ledger)

InvokeDeleteAsset(id, fault) ==
    AssetAnswered("DeleteAsset", id, <<>>, fault, DeleteAsset(ledger, id, fault), ledger)

NextAssets ==
    \/ InvokeInitLedger
    \/ \E id \in AssetIds, fault \in AssetFaults :
          \/ \E color \in AssetColors, size \in AssetSizes, owner \in AssetOwners,
                appraisedValue \in AssetValues :
                \/ InvokeCreateAsset(id, color, size, owner, appraisedValue, fault)
                \/ InvokeUpdateAsset(id, color, size, owner, appraisedValue, fault)
          \/ InvokeDeleteAsset(id, fault)

SpecAssets == Init /\ [][NextAssets]_vars

\* C25: CreateAsset never overwrites: for an id that exists it fails with
\* "the asset <id> already exists", when the existence read fails it returns
\* the read error, and in both cases the world state is left as it was
C25_CreateNeverOverwrites ==
    last.op = "CreateAsset" =>
        /\ last.fault = "read" =>
              /\ ~last.ok /\ last.err = "failed to read from world state"
              /\ ledger = last.res
        /\ last.fault = "none" /\ Has(last.res, last.target) =>
              /\ ~last.ok /\ last.err = "the asset %s already exists"
              /\ last.about = last.target
              /\ ledger = last.res
        /\ last.fault = "none" /\ ~Has(last.res, last.target) =>
              /\ last.ok
              /\ ledger = PutState(last.res, last.target, last.asset)

\* an asset other than the stored one was offered under an existing id and
\* refused
C25_Witness ==
    /\ last.op = "CreateAsset"
    /\ last.fault = "none"
    /\ Has(last.res, last.target)
    /\ last.res[last.target] # last.asset
    /\ ~last.ok

(***************************************************************************)
(* Status reads of state a while trainers are enrolled and re-enrolled     *)
(* into clusters b and A of states a and B.                                  *)
(***************************************************************************)
StableClusterIds == { << "b" >>, << "A" >> }

NextStable ==
    Requests(Subjects, PlainStateIds, StableClusterIds, { << "a" >> }, { << "b" >> })

SpecStable == InitEnrolled /\ [][NextStable]_vars

\* C26: convergence is stable: after StateStatus has reported a state
\* converged, whatever request comes next leaves a ledger on which
\* StateStatus of that state still succeeds and reports it converged
C26_ConvergenceStable ==
    [][ (last.op = "StateStatus" /\ last.ok /\ last.res.is_converged) =>
            /\ StateStatus(ledger', <<>>, last.target).ok
            /\ StateStatus(ledger', <<>>, last.target).is_converged ]_vars

(***************************************************************************)
(* whitelist.Service.Hierarchy one ledger round trip at a time, on a         *)
(* whitelist large enough to need a second page, while enrollments go on.   *)
(* reqs holds the call in flight: the page it will ask for next, the items  *)
(* gathered so far and the pages asked for; began is the world state when   *)
(* the call started and static tells that no write changed it since.        *)
(***************************************************************************)
SubjectDigits == << "a", "b", "t1", "t2" >>

\* 64 subjects in ascending order
NthSubject(i) ==
    << SubjectDigits[(i \div 16) + 1], SubjectDigits[((i \div 4) % 4) + 1],
       SubjectDigits[(i % 4) + 1] >>

\* the world state with subjects 1..n enrolled in cluster b of state a
WhitelistOf(n) ==
    [k \in { whitelistKey(NthSubject(i)) : i \in 1..n } |->
        RecordWhitelistEntry(<<>>, Tail(k), "did", "n2", << "a" >>, << "b" >>,
                             "vc", "pk", 1).ledger[k]]

WhitelistSizes == { 0, 50, 51 }

\* enrolled while a call is in flight: a subject that sorts before all
\* others, one that is enrolled already when the whitelist is not empty, and
\* one that starts with "~"
LateSubjects == { NthSubject(0), NthSubject(1), << "~", "a" >> }

ListFaults == { "none", "transport" }

InitPaging == \E n \in WhitelistSizes : Start(WhitelistOf(n))

HierarchyCall(l) ==
    [op |-> "Hierarchy", pc |-> "fetch", page |-> 1, all |-> <<>>, pages |-> <<>>,
     err |-> "", began |-> l, static |-> TRUE]

\* one turn of the loop of Hierarchy: List answered r for call.page
HierarchyStep(call, r) ==
    IF ~r.ok
    THEN [call EXCEPT !.pc = "failed", !.err = r.err, !.pages = Append(@, call.page)]
    ELSE [call EXCEPT !.pc = IF r.has_more THEN "fetch" ELSE "done",
                      !.all = @ \o r.items,
                      !.page = IF r.has_more THEN @ + 1 ELSE @,
                      !.pages = Append(@, call.page)]

\* whitelist.Service.List as the peer answers it
ListAnswer(l, page, fault) ==
    IF fault = "transport" THEN [ok |-> FALSE, err |-> "peer command failed"]
    ELSE WhitelistList(l, page, defaultPageSize)

\* Hierarchy is called
BeginHierarchy ==
    /\ reqs = <<>>
    /\ nops < MaxOps
    /\ nops' = nops + 1
    /\ reqs' = << HierarchyCall(ledger) >>
    /\ UNCHANGED <<ledger, clock, last, hist>>

\* the call in flight gets the answer to its next List
FetchPage(fault) ==
    /\ reqs # <<>>
    /\ LET call == HierarchyStep(reqs[1], ListAnswer(ledger, reqs[1].page, fault))
       IN  IF call.pc = "fetch"
           THEN /\ reqs' = << call >>
                /\ UNCHANGED last
           ELSE /\ reqs' = <<>>
                /\ last' = [op |-> "Hierarchy", ok |-> call.pc = "done", err |-> call.err,
                            items |-> call.all, pages |-> call.pages,
                            began |-> call.began, static |-> call.static,
                            res |-> IF call.pc = "done" THEN ToHierarchy(call.all)
                                    ELSE <<>>]
    /\ UNCHANGED <<ledger, clock, nops, hist>>

\* RecordWhitelistEntry is committed, possibly between two fetches
LateEnrollment(sub, state, cluster) ==
    LET r == RecordWhitelistEntry(ledger, sub, "did", "n2", state, cluster, "vc", "pk",
                                  clock)
    IN  /\ nops < MaxOps
        /\ nops' = nops + 1
        /\ ledger' = r.ledger
        /\ reqs' = [i \in 1..Len(reqs) |->
                       [reqs[i] EXCEPT !.static = @ /\ r.ledger = ledger]]
        /\ UNCHANGED <<clock, last, hist>>

NextPaging ==
    \/ BeginHierarchy
    \/ \E fault \in ListFaults : FetchPage(fault)
    \/ \E sub \in LateSubjects : LateEnrollment(sub, << "a" >>, << "a" >>)

SpecPaging == InitPaging /\ [][NextPaging]_vars

\* the subjects with a whitelist entry on world state l
SubjectsOf(l) == { l[k].jwt_sub : k \in WhitelistKeys(l) }

\* C28: Hierarchy returns a consistent snapshot under concurrent enrollment:
\* the entries it returns include every subject that was enrolled when the
\* call began, and no subject twice
C28_HierarchySnapshot ==
    (last.op = "Hierarchy" /\ last.ok) =>
        /\ \A sub \in SubjectsOf(last.began) :
              \E i \in 1..Len(last.items) : last.items[i].jwt_sub = sub
        /\ \A i, j \in 1..Len(last.items) :
              last.items[i].jwt_sub = last.items[j].jwt_sub => i = j

\* the List calls the spec allots to a whitelist of m entries
ListCallsFor(m) ==
    IF m <= defaultPageSize THEN 1 ELSE (m + defaultPageSize - 1) \div defaultPageSize

\* C30: on a whitelist of M entries that no write changes during the call,
\* Hierarchy asks for pages 1, 2, ... in order and ends after exactly
\* max(1, ceil(M/50)) List calls; a failing List ends it at once with the
\* error of that List
C30_ExactListCalls ==
    (last.op = "Hierarchy" /\ last.static) =>
        /\ last.pages = [i \in 1..Len(last.pages) |-> i]
        /\ last.ok =>
              Len(last.pages) = ListCallsFor(Cardinality(WhitelistKeys(last.began)))
        /\ ~last.ok =>
              /\ last.err = "peer command failed"
              /\ Len(last.pages) <= ListCallsFor(Cardinality(WhitelistKeys(last.began)))

(***************************************************************************)
(* Hierarchy on small whitelists whose entries name several states and      *)
(* clusters, some of them blank.                                            *)
(***************************************************************************)
GroupSubjects == { << "a" >>, << "b" >>, << "t1" >>, << "~", "a" >> }
GroupStates == { << "a" >>, << "B" >>, << " " >> }
GroupClusters == { << "b" >>, << "A" >>, <<>> }

NextGroups ==
    \/ BeginHierarchy
    \/ \E fault \in ListFaults : FetchPage(fault)
    \/ \E sub \in GroupSubjects, state \in GroupStates, cluster \in GroupClusters :
           LateEnrollment(sub, state, cluster)

SpecGroups == InitEnrolled /\ [][NextGroups]_vars

\* the places <<n, m, i>> of the hierarchy h that hold the entry of subject sub
PlacesOf(h, sub) ==
    { p \in UNION { UNION { { << n, m, i >> : i \in 1..Len(h[n].clusters[m].nodes) } :
                            m \in 1..Len(h[n].clusters) } : n \in 1..Len(h) } :
        h[p[1]].clusters[p[2]].nodes[p[3]].jwt_sub = sub }

\* the group names the spec gives an entry
GroupStateOf(e) == IF Blank(e.state) THEN << "unknown" >> ELSE e.state
GroupClusterOf(e) == IF Blank(e.cluster) THEN << "unassigned" >> ELSE e.cluster

\* C29: on a whitelist that no write changes during the call, Hierarchy
\* places every entry in exactly one (state, cluster) group, a blank state
\* read as "unknown" and a blank cluster as "unassigned", with the states
\* ascending and the clusters ascending within each state
C29_EveryEntryInOneGroup ==
    (last.op = "Hierarchy" /\ last.ok /\ last.static) =>
        /\ \A k \in WhitelistKeys(last.began) :
              /\ Cardinality(PlacesOf(last.res, last.began[k].jwt_sub)) = 1
              /\ \A p \in PlacesOf(last.res, last.began[k].jwt_sub) :
                    /\ last.res[p[1]].state_id = GroupStateOf(last.began[k])
                    /\ last.res[p[1]].clusters[p[2]].cluster_id =
                          GroupClusterOf(last.began[k])
        /\ \A n \in 1..(Len(last.res) - 1) :
              StrLess(last.res[n].state_id, last.res[n + 1].state_id)
        /\ \A n \in 1..Len(last.res) : \A m \in 1..(Len(last.res[n].clusters) - 1) :
              StrLess(last.res[n].clusters[m].cluster_id,
                      last.res[n].clusters[m + 1].cluster_id)

(***************************************************************************)
(* Service.StateStatus one ledger round trip at a time: the query           *)
(* ReadStateConvergence, then the List calls of Hierarchy, while claims and  *)
(* enrollments are committed.  The call in flight also records, in seen,    *)
(* the status of its state on every world state from its start to its end.  *)
(***************************************************************************)
StatusCall(l, stateID) ==
    [op |-> "StateStatus", pc |-> "read", state_id |-> stateID, entry |-> <<>>,
     page |-> 1, all |-> <<>>, pages |-> <<>>, err |-> "", began |-> l,
     static |-> TRUE, seen |-> { StateStatus(l, <<>>, stateID) }]

\* the calls in flight once a transaction has left world state l
Observing(l) ==
    [i \in 1..Len(reqs) |->
        [reqs[i] EXCEPT !.seen = @ \cup { StateStatus(l, <<>>, reqs[i].state_id) },
                        !.static = @ /\ l = ledger]]

StatusReturned(call, result) ==
    [op |-> "StateStatus", target |-> call.state_id, ok |-> result.ok,
     err |-> result.err, res |-> result, seen |-> call.seen, static |-> call.static]

\* StateStatus is called for a state id that is not blank
BeginStateStatus(stateID) ==
    /\ reqs = <<>>
    /\ nops < MaxOps
    /\ reqs' = << StatusCall(ledger, stateID) >>
    /\ UNCHANGED <<ledger, clock, nops, last, hist>>

\* the query ReadStateConvergence is answered
ReadConvergence ==
    /\ reqs # <<>>
    /\ reqs[1].pc = "read"
    /\ LET entry == ReadStateConvergence(ledger, reqs[1].state_id)
       IN  IF entry.ok
           THEN /\ reqs' = << [reqs[1] EXCEPT !.pc = "fetch", !.entry = entry] >>
                /\ UNCHANGED last
           ELSE /\ reqs' = <<>>
                /\ last' = StatusReturned(reqs[1], [ok |-> FALSE, err |-> entry.err])
    /\ UNCHANGED <<ledger, clock, nops, hist>>

\* a List of the Hierarchy call inside stateStatusFromLedger is answered
FetchStatusPage ==
    /\ reqs # <<>>
    /\ reqs[1].pc = "fetch"
    /\ LET call == HierarchyStep(reqs[1], ListAnswer(ledger, reqs[1].page, "none"))
       IN  IF call.pc = "fetch"
           THEN /\ reqs' = << call >>
                /\ UNCHANGED last
           ELSE /\ reqs' = <<>>
                /\ last' = StatusReturned(call,
                               stateStatusOver(ToHierarchy(call.all), call.entry))
    /\ UNCHANGED <<ledger, clock, nops, hist>>

\* CommitStateClusterConvergence is committed
CommitDuring(client, stateID, clusterID, payload) ==
    LET r == CommitStateClusterConvergence(ledger, client, stateID, clusterID, payload,
                                           clock)
    IN  /\ nops < MaxOps
        /\ nops' = nops + 1
        /\ ledger' = r.ledger
        /\ reqs' = Observing(r.ledger)
        /\ UNCHANGED <<clock, last, hist>>

\* RecordWhitelistEntry is committed
EnrollDuring(sub, state, cluster) ==
    LET r == RecordWhitelistEntry(ledger, sub, "did", NodeOf(sub), state, cluster,
                                  "vc", "pk", clock)
    IN  /\ nops < MaxOps
        /\ nops' = nops + 1
        /\ ledger' = r.ledger
        /\ reqs' = Observing(r.ledger)
        /\ UNCHANGED <<clock, last, hist>>

StatusClusterIds == { << "a" >>, << "b" >> }

NextStatus ==
    \/ BeginStateStatus(<< "a" >>)
    \/ ReadConvergence
    \/ FetchStatusPage
    \/ \E cl \in StatusClusterIds : CommitDuring(<< "t1" >>, << "a" >>, cl, << "p1" >>)
    \/ \E sub \in Subjects, cl \in StatusClusterIds : EnrollDuring(sub, << "a" >>, cl)

SpecStatus == InitEnrolled /\ [][NextStatus]_vars

\* C27: StateStatus is atomic with respect to concurrent writes: what it
\* returns is the status of the state on one of the world states that
\* existed between the start of the call and its end
C27_StatusAtomic ==
    last.op = "StateStatus" => last.res \in last.seen

(***************************************************************************)
(* Properties of the convergence key layout and of its readers              *)
(***************************************************************************)
\* the (state id, cluster id) pairs CommitStateClusterConvergence accepted
AcceptedPairs == { t \in DOMAIN hist.commits : t[1] = "state" }

\* the world state reduced to the child claims of state scope
ChildClaims ==
    [k \in { ClaimKey(t) : t \in AcceptedPairs } \cap DOMAIN ledger |-> ledger[k]]

\* C31: the convergence key encoding is injective: distinct accepted
\* (state id, cluster id) pairs have distinct ledger keys, and no child-claim
\* key is the summary key of a state or is read by ReadStateConvergence as
\* the summary of a state
C31_KeyEncodingInjective ==
    /\ \A t, u \in AcceptedPairs : t # u => ClaimKey(t) # ClaimKey(u)
    /\ \A s \in AllStateIds :
          /\ \A t \in AcceptedPairs :
                ClaimKey(t) # stateSummaryKey(normalizeIdentifier(s).v)
          /\ ~ReadStateConvergence(ChildClaims, s).hasSummary

\* the normalized state ids under which the requests so far may have
\* written a convergence key
KeyedStateIds ==
    { normalizeIdentifier(s).v : s \in AllStateIds } \cup
    DOMAIN ListStateConvergence(ledger)

\* ReadStateConvergence(s) found a record or a summary
ReadsAnything(s) ==
    \/ ReadStateConvergence(ledger, s).hasSummary
    \/ DOMAIN ReadStateConvergence(ledger, s).clusters # {}

\* C32: ListStateConvergence and ReadStateConvergence agree: every state id
\* that has a convergence key has an entry in ListStateConvergence, and that
\* entry holds the cluster records and the summary (present or absent) that
\* ReadStateConvergence returns for the state id
C32_ListAgreesWithRead ==
    \A s \in KeyedStateIds :
        (s \in DOMAIN ListStateConvergence(ledger) \/ ReadsAnything(s)) =>
            /\ s \in DOMAIN ListStateConvergence(ledger)
            /\ ReadStateConvergence(ledger, s).ok
            /\ ListStateConvergence(ledger)[s].clusters
                  = ReadStateConvergence(ledger, s).clusters
            /\ ListStateConvergence(ledger)[s].hasSummary
                  = ReadStateConvergence(ledger, s).hasSummary
            /\ ListStateConvergence(ledger)[s].summary
                  = ReadStateConvergence(ledger, s).summary

\* strings.ToUpper on one character
UpperTok(tok) == CASE tok = "a" -> "A" [] tok = "b" -> "B" [] OTHER -> tok

\* the spellings of identifier s that differ from it in letter case or in
\* surrounding blanks only
Spellings(s) ==
    { s, [i \in 1..Len(s) |-> UpperTok(s[i])], << " " >> \o s \o << " " >>,
      << " " >> \o [i \in 1..Len(s) |-> UpperTok(s[i])] }

\* C33: convergence identifiers are insensitive to letter case and
\* surrounding blanks: after an accepted CommitStateClusterConvergence(s, c, p),
\* ReadStateConvergence under every spelling of s returns the record of c
\* with payload p, and a commit or a declaration under any spelling of s and
\* c addresses the key the accepted one wrote
C33_SpellingInsensitive ==
    (last.op = "CommitStateClusterConvergence" /\ last.ok) =>
        \A s \in Spellings(last.target) :
            /\ ReadStateConvergence(ledger, s).ok
            /\ last.child \in DOMAIN ReadStateConvergence(ledger, s).clusters
            /\ ReadStateConvergence(ledger, s).clusters[last.child].payload
                  = last.payload
            /\ \A c \in Spellings(last.child) :
                  stateClusterKey(normalizeIdentifier(s).v, normalizeIdentifier(c).v)
                      = last.key
            /\ stateSummaryKey(normalizeIdentifier(s).v) = stateSummaryKey(last.target)

(***************************************************************************)
(* FabricClient.SelectPeer.  peerIndex is a uint32, kept as its two 16-bit  *)
(* halves [hi, lo]; hist holds the client (its peer order, its counter,     *)
(* whether it is fresh) and picks, one entry per call that has incremented  *)
(* the counter, in the order of the increments, with the peer it returned   *)
(* and its place ret in the order of the returns; reqs holds the calls     *)
(* that have incremented and not yet returned.                              *)
(***************************************************************************)
MaxCalls == 4

Uint32(hi, lo) == [hi |-> hi, lo |-> lo]

\* (an increment that is lost)
AddUint32Lost(v) == v

\* atomic.AddUint32(&v, 1): the new value, modulo 2^32
AddUint32(v) ==
    IF v.lo < 65535 THEN Uint32(v.hi, v.lo + 1)
    ELSE IF v.hi < 65535 THEN Uint32(v.hi + 1, 0)
    ELSE Uint32(0, 0)

\* v - 1 in uint32 arithmetic
DecUint32(v) ==
    IF v.lo > 0 THEN Uint32(v.hi, v.lo - 1)
    ELSE IF v.hi > 0 THEN Uint32(v.hi - 1, 65535)
    ELSE Uint32(65535, 65535)

\* v % n for 0 < n < 2^15
ModUint32(v, n) == ((v.hi % n) * (65536 % n) + v.lo) % n

\* buildPeerOrder: the default peer when it is configured, then the other
\* peers in ascending order
buildPeerOrder(peers, defaultPeer) ==
    (IF defaultPeer # <<>> /\ defaultPeer \in peers THEN << defaultPeer >> ELSE <<>>)
    \o SortStrings(peers \ { defaultPeer })

PeerNamePool == { << "a" >>, << "b" >>, << "t1" >> }
DefaultPeers == { <<>>, << "b" >>, << "t2" >> }

\* a fresh client, and one whose counter is two selections short of 2^32
CounterStarts == { Uint32(0, 0), Uint32(65535, 65534) }

InitPeers ==
    /\ ledger = <<>>
    /\ clock = 1
    /\ nops = 0
    /\ reqs = <<>>
    /\ \E peers \in SUBSET PeerNamePool, defaultPeer \in DefaultPeers,
          start \in CounterStarts :
          /\ hist = [peers |-> peers, defaultPeer |-> defaultPeer,
                     peerNames |-> buildPeerOrder(peers, defaultPeer),
                     peerIndex |-> start, fresh |-> start = Uint32(0, 0),
                     picks |-> <<>>]
          /\ last = [op |-> "NewFabricClient", peer |-> <<>>]

\* SelectPeer up to its atomic increment; without peers it returns ""
\* at once
SelectPeerAdd ==
    /\ nops < MaxCalls
    /\ nops' = nops + 1
    /\ IF hist.peerNames = <<>>
       THEN /\ last' = [op |-> "SelectPeer", peer |-> <<>>]
            /\ UNCHANGED <<hist, reqs>>
       ELSE /\ hist' = [hist EXCEPT
                           !.peerIndex = AddUint32(@),
                           !.picks = Append(@, [idx |-> AddUint32(hist.peerIndex),
                                                peer |-> <<>>, ret |-> 0])]
            /\ reqs' = Append(reqs, [idx |-> AddUint32(hist.peerIndex),
                                     slot |-> Len(hist.picks) + 1])
            /\ UNCHANGED last
    /\ UNCHANGED <<ledger, clock>>

\* the call in flight at place i computes its position and returns
SelectPeerReturn(i) ==
    /\ i \in 1..Len(reqs)
    /\ LET pos == ModUint32(DecUint32(reqs[i].idx), Len(hist.peerNames))
       IN  /\ last' = [op |-> "SelectPeer", peer |-> hist.peerNames[pos + 1]]
           /\ hist' = [hist EXCEPT
                           !.picks[reqs[i].slot].peer = hist.peerNames[pos + 1],
                           !.picks[reqs[i].slot].ret = Len(hist.picks) - Len(reqs) + 1]
    /\ reqs' = [j \in 1..(Len(reqs) - 1) |-> IF j < i THEN reqs[j] ELSE reqs[j + 1]]
    /\ UNCHANGED <<ledger, clock, nops>>

NextPeers ==
    \/ SelectPeerAdd
    \/ \E i \in 1..MaxCalls : SelectPeerReturn(i)

SpecPeers == InitPeers /\ [][NextPeers]_vars

\* the calls at places i .. i + n - 1 of picks have all returned
WindowReturned(i, n) == \A j \in i..(i + n - 1) : hist.picks[j].peer # <<>>

\* C34: SelectPeer is round-robin: the first call of a fresh client returns
\* the first peer of the configured order, which is the default peer when
\* that is configured, and in every window of n consecutive calls, n the
\* number of peers, each peer is returned exactly once, also when the 32-bit
\* counter wraps around
C34_RoundRobin ==
    /\ (hist.fresh /\ hist.picks # <<>> /\ hist.picks[1].peer # <<>>) =>
          /\ hist.picks[1].peer = hist.peerNames[1]
          /\ hist.defaultPeer \in hist.peers => hist.picks[1].peer = hist.defaultPeer
    /\ \A i \in 1..(Len(hist.picks) - Len(hist.peerNames) + 1) :
          WindowReturned(i, Len(hist.peerNames)) =>
              \A p \in hist.peers :
                  Cardinality({ j \in i..(i + Len(hist.peerNames) - 1) :
                                   hist.picks[j].peer = p }) = 1

RoutedStates == { "a", "b" }
CalledStates == { "", "a", "b", "c" }

\* route lists parseStatePeerRoutes accepts: two peers or more, repeats allowed
RouteLists == { << "p1", "p2" >>, << "p2", "p1", "p3" >>, << "p1", "p1", "p2" >> }

\* (a mutex that excludes nobody)
MutexIgnored(holder) == TRUE

\* stateRouteMu can be locked
MutexFree(holder) == holder = 0

InitRoutes ==
    /\ ledger = <<>>
    /\ clock = 1
    /\ nops = 0
    /\ reqs = <<>>
    /\ last = [op |-> "LoadConfig", ok |-> TRUE, state |-> "", peer |-> "",
               before |-> <<>>, after |-> <<>>]
    /\ \E routed \in SUBSET RoutedStates \ { {} } :
          \E routes \in [routed -> RouteLists] :
             hist = [routes |-> routes, index |-> [s \in routed |-> 0], holder |-> 0,
                     served |-> [s \in routed |-> <<>>]]

RouteAnswer(state, ok, peer, before, after) ==
    [op |-> "PeerForState", ok |-> ok, state |-> state, peer |-> peer,
     before |-> before, after |-> after]

\* PeerForState(state) is called; an empty state is refused before the lock
PeerForStateCall(state) ==
    /\ nops < MaxCalls
    /\ nops' = nops + 1
    /\ IF state = ""
       THEN /\ last' = RouteAnswer(state, FALSE, "", hist.index, hist.index)
            /\ UNCHANGED reqs
       ELSE /\ reqs' = Append(reqs, [id |-> nops + 1, state |-> state, pc |-> "lock",
                                      idx |-> 0])
            /\ UNCHANGED last
    /\ UNCHANGED <<ledger, clock, hist>>

\* the call at place i locks stateRouteMu and reads the route list and the
\* position of its state; an unrouted state is refused and the lock released
PeerForStateLock(i) ==
    /\ i \in 1..Len(reqs)
    /\ reqs[i].pc = "lock"
    /\ MutexFree(hist.holder)
    /\ IF reqs[i].state \notin DOMAIN hist.routes
       THEN /\ last' = RouteAnswer(reqs[i].state, FALSE, "", hist.index, hist.index)
            /\ reqs' = [j \in 1..(Len(reqs) - 1) |->
                           IF j < i THEN reqs[j] ELSE reqs[j + 1]]
            /\ UNCHANGED hist
       ELSE /\ reqs' = [reqs EXCEPT ![i].pc = "store",
                                    ![i].idx = hist.index[reqs[i].state]
                                                  % Len(hist.routes[reqs[i].state])]
            /\ hist' = [hist EXCEPT !.holder = reqs[i].id]
            /\ UNCHANGED last
    /\ UNCHANGED <<ledger, clock, nops>>

\* the call at place i stores the next position, unlocks and returns
PeerForStateStore(i) ==
    /\ i \in 1..Len(reqs)
    /\ reqs[i].pc = "store"
    /\ LET state == reqs[i].state
           peers == hist.routes[state]
           after == [hist.index EXCEPT ![state] = (reqs[i].idx + 1) % Len(peers)]
       IN  /\ hist' = [hist EXCEPT !.index = after, !.holder = 0,
                                   !.served[state] = Append(@, peers[reqs[i].idx + 1])]
           /\ last' = RouteAnswer(state, TRUE, peers[reqs[i].idx + 1], hist.index, after)
    /\ reqs' = [j \in 1..(Len(reqs) - 1) |-> IF j < i THEN reqs[j] ELSE reqs[j + 1]]
    /\ UNCHANGED <<ledger, clock, nops>>

NextRoutes ==
    \/ \E state \in CalledStates : PeerForStateCall(state)
    \/ \E i \in 1..MaxCalls : PeerForStateLock(i)
    \/ \E i \in 1..MaxCalls : PeerForStateStore(i)

SpecRoutes == InitRoutes /\ [][NextRoutes]_vars

\* C36: PeerForState rotates per state independently: the peers returned
\* for a state are its configured peers, cyclically in configured order; a
\* call for one state leaves the position of every other state alone; a call
\* with an empty or unrouted state fails and changes no position; whatever
\* the interleaving of the callers
C36_PerStateRotation ==
    /\ \A s \in DOMAIN hist.served : \A k \in 1..Len(hist.served[s]) :
          hist.served[s][k] = hist.routes[s][((k - 1) % Len(hist.routes[s])) + 1]
    /\ last.op = "PeerForState" =>
          /\ last.ok =>
                /\ \E k \in 1..Len(hist.routes[last.state]) :
                      hist.routes[last.state][k] = last.peer
                /\ \A s \in DOMAIN last.before \ { last.state } :
                      last.after[s] = last.before[s]
          /\ (last.state = "" \/ last.state \notin DOMAIN hist.routes) =>
                /\ ~last.ok
                /\ last.after = last.before

\* state a has gone once round its list of two peers and state b was
\* served once in between
C36_Witness ==
    /\ "a" \in DOMAIN hist.served /\ "b" \in DOMAIN hist.served
    /\ Len(hist.served["a"]) = 3
    /\ Len(hist.routes["a"]) = 2
    /\ Len(hist.served["b"]) = 1
    /\ hist.index["a"] = 1 /\ hist.index["b"] = 1


(***************************************************************************)
(* The operations gated by trainer authorization.  The chaincode writes    *)
(* status AUTHORIZED only; the world state it reads may hold a trainer      *)
(* record with another status, which the gate has to refuse.                *)
(***************************************************************************)
GatedOps ==
    {"CommitData", "CommitModel", "CommitStateClusterConvergence",
     "CommitNationStateConvergence", "DeclareStateConvergence",
     "DeclareNationConvergence"}

\* what the world state holds for identity t2 when the channel is opened:
\* no record, or a record with one of these statuses
StoredStatuses == {"AUTHORIZED", "authorized", "REVOKED", ""}
NoRecord == "no record"

\* the trainer record of an identity with its status set
WithStatus(l, clientID, status) ==
    PutState(l, trainerKey(clientID),
             [l[trainerKey(clientID)] EXCEPT !.status = status])

\* trainer t1 is registered and authorized, t2 is as the world state has it
InitGated ==
    \E status \in StoredStatuses \cup {NoRecord} :
        Start(IF status = NoRecord
              THEN Enrolled(<<>>, << "t1" >>, << "a" >>, << "b" >>, 1)
              ELSE WithStatus(Enrolled(Enrolled(<<>>, << "t1" >>, << "a" >>, << "b" >>, 1),
                                       << "t2" >>, << "a" >>, << "b" >>, 1),
                              ClientOf(<< "t2" >>), status))

NextGated ==
    \/ \E sub \in Subjects : EnrollTrainer(sub, << "a" >>, << "b" >>)
    \/ \E sub \in Subjects, id \in ArtifactIds, payload \in Payloads :
           InvokeCommitData(sub, id, payload)
    \/ \E sub \in Subjects, id \in ArtifactIds, payload \in Payloads :
           InvokeCommitModel(sub, id, << "state" >>, << "a" >>, payload)
    \/ \E sub \in Subjects, p \in Payloads :
           CommitStateCluster(ClientOf(sub), << "a" >>, << "b" >>, p)
    \/ \E sub \in Subjects, p \in Payloads : CommitNationState(ClientOf(sub), << "a" >>, p)
    \/ \E sub \in Subjects, p \in DeclarePayloads : DeclareState(ClientOf(sub), << "a" >>, p)
    \/ \E sub \in Subjects, p \in DeclarePayloads : DeclareNation(ClientOf(sub), p)

SpecGated == InitGated /\ [][NextGated]_vars

\* the invoker has no trainer record, or one whose status is not AUTHORIZED
\* (compared as the gate compares it, ignoring letter case)
NotAuthorized(l, clientID) ==
    \/ trainerKey(clientID) \notin DOMAIN l
    \/ \A spelling \in AuthorizedSpellings : l[trainerKey(clientID)].status # spelling

\* C37: each of the six operations gated by trainer authorization, invoked
\* by an identity that has no trainer record or whose record's status is not
\* AUTHORIZED, returns an error and leaves every ledger key unchanged
C37_UnauthorizedChangesNothing ==
    [][(nops' = nops + 1 /\ last'.op \in GatedOps /\ NotAuthorized(ledger, last'.caller))
          => (~last'.ok /\ last'.err # "" /\ ledger' = ledger)]_vars

\* an identity whose record reads REVOKED tried to overwrite the data that
\* trainer t1 committed, was refused, and the record of t1 is still there
C37_Witness ==
    /\ last.op = "CommitData"
    /\ ~last.ok
    /\ last.err = errTrainerUnauthorized
    /\ Has(ledger, trainerKey(last.caller))
    /\ ledger[trainerKey(last.caller)].status = "REVOKED"
    /\ Has(ledger, last.key)
    /\ ledger[last.key].owner = "n1"


(***************************************************************************)
(* ListModels over models of several layers and scopes, whose names differ  *)
(* in letter case between the commit and the query.                         *)
(***************************************************************************)
CommittedLayers == { << "A" >>, << "b" >> }
CommittedScopes == { << "a" >>, << "B" >> }
CommittedModelIds == { << "a" >>, << "b" >>, << "~", "a" >> }
QueriedLayers == { << "a" >>, << "A" >>, << "b" >> }
QueriedScopes == { <<>>, << "A" >>, << "b" >> }
QueriedPages == { BlankArg, Itoa(1), Itoa(2) }

NextModels ==
    \/ \E id \in CommittedModelIds, layer \in CommittedLayers, scope \in CommittedScopes :
           InvokeCommitModel(<< "t1" >>, id, layer, scope, << "p1" >>)
    \/ \E layer \in QueriedLayers, scope \in QueriedScopes,
           pageArg \in QueriedPages, perPageArg \in QueriedPages :
           QueryListModels(<< "t1" >>, layer, scope, pageArg, perPageArg)

SpecModels == InitEnrolled /\ [][NextModels]_vars

\* the keys of the stored models
StoredModelKeys(l) == { k \in DOMAIN l : HasPrefix(k, modelPrefix) }

\* the stored models that a listing of the layer and the scope has to match
MatchingModels(l, keys, layer, scope) ==
    { AsModelRecord(l[k]) : k \in
        { j \in keys :
            /\ EqualFold(AsModelRecord(l[j]).layer, layer)
            /\ scope # <<>> => EqualFold(AsModelRecord(l[j]).scope_id, scope) } }

\* what a listing answered, against the models of the keys it has to match
ListedExactly(l, keys, answer) ==
    LET matches == MatchingModels(l, keys, answer.target, answer.child)
        items == answer.res.items
    IN  /\ answer.res.total = Cardinality(matches)
        /\ \A i \in 1..Len(items) : items[i] \in matches
        /\ answer.page_arg = BlankArg /\ answer.per_page_arg = BlankArg
              => { items[i] : i \in 1..Len(items) } = matches

\* C38: ListModels(layer, scope) matches exactly the stored models whose
\* layer equals the layer ignoring case and, when the scope is not empty,
\* whose scope id equals the scope ignoring case; an empty scope matches
\* every scope of the layer, models of other layers never appear, and the
\* total reported is the number of matches on every page
C38_ListMatchesExactly ==
    last.op = "ListModels" /\ last.ok =>
        ListedExactly(ledger, StoredModelKeys(ledger), last)

\* the same, over the stored models whose key the range scan reaches
C38_ListMatchesScanned ==
    last.op = "ListModels" /\ last.ok =>
        ListedExactly(ledger, RangeKeys(ledger, modelPrefix), last)

\* a second page of one model each was listed for layer A asked as "a" and
\* scope B asked as "b", with two matches and a model of another layer stored
C38_ScannedWitness ==
    /\ last.op = "ListModels" /\ last.ok
    /\ last.target = << "a" >> /\ last.child = << "b" >>
    /\ last.page_arg = Itoa(2) /\ last.per_page_arg = Itoa(1)
    /\ last.res.total = 2
    /\ Len(last.res.items) = 1


(***************************************************************************)
(* GET /<layer>/models/<id>: the record endpoint that RegisterRoutes mounts *)
(* for each layer.  handleRecord hands the identifier alone to Retrieve.    *)
(***************************************************************************)
RouteLayers == { << "cluster" >>, << "state" >> }

NextRetrieve ==
    \E sub \in Subjects, fault \in PeerFaults, layer \in RouteLayers, dataID \in ArtifactIds :
        \/ PostModel(ModelRequest("models/commit", sub, layer, << "a" >>, Blanks,
                                  << "p1" >>, 1, clock), dataID, fault)
        \/ GetModel(ModelRequest("models/retrieve", sub, layer, Blanks, dataID,
                                 Blanks, 1, clock), fault)

SpecRetrieve == InitEnrolled /\ [][NextRetrieve]_vars

\* C39: Retrieve through the endpoint of layer L returns an artifact only if
\* the artifact was committed under layer L; an id committed under another
\* layer is not returned by the endpoint of L
C39_RetrieveWithinLayer ==
    last.op = "models/retrieve" /\ last.ok =>
        last.res.record.layer = layerBySlug(last.request.layer).slug

\* an artifact was returned by the endpoint of the layer it was committed under
C39_SameLayerServed ==
    /\ last.op = "models/retrieve" /\ last.ok
    /\ last.res.record.layer = last.request.layer


(***************************************************************************)
(* NationStatus over a whitelist whose states were enrolled in either       *)
(* letter case or left blank.                                               *)
(***************************************************************************)
EnrolledStates == { << "a" >>, << "B" >>, << " " >> }
ClaimedStates == { << "a" >>, << "B" >>, << "unknown" >> }

NextNation ==
    \/ \E sub \in Subjects, st \in EnrolledStates : MirrorWhitelist(sub, st, << "b" >>)
    \/ \E st \in ClaimedStates, p \in Payloads : CommitNationState(<< "t1" >>, st, p)
    \/ \E p \in Payloads : DeclareNation(<< "t1" >>, p)
    \/ GetNationStatus

SpecNation == InitEnrolled /\ [][NextNation]_vars

\* the states of the whitelist hierarchy, and whether a nation-scope claim
\* is committed for a state
WhitelistStates(l) == { HierarchyState(AsWhitelistEntry(l[k])) : k \in WhitelistKeys(l) }
NationClaimed(l, stateID) == Has(l, nationStateKey(normalizeIdentifier(stateID).v))

\* what NationStatus answered, against the whitelist and the claims
NationAnswerRight(l, res) ==
    /\ Len(res.states) = Cardinality(WhitelistStates(l))
    /\ { res.states[i].id : i \in 1..Len(res.states) } = WhitelistStates(l)
    /\ \A i \in 1..Len(res.states) :
          /\ res.states[i].is_converged <=> NationClaimed(l, res.states[i].id)
          /\ \A j \in 1..Len(res.states) :
                i < j => StrLess(res.states[i].id, res.states[j].id)
    /\ res.is_converged <=>
          /\ WhitelistStates(l) # {}
          /\ \A stateID \in WhitelistStates(l) : NationClaimed(l, stateID)

\* C40: NationStatus, when no nation summary exists, reports is_converged
\* exactly when the whitelist hierarchy has at least one state and every
\* state in it has a committed nation-scope claim, for every state
\* identifier accepted at enrollment; each hierarchy state is listed once
\* with its submitted flag, in ascending order of state id
C40_NationImplicit ==
    (last.op = "NationStatus" /\ last.ok /\ ~Has(ledger, nationSummaryKey))
        => NationAnswerRight(ledger, last.res)

\* the same, for a whitelist whose states were enrolled in lower case
C40_NationImplicitLowerCase ==
    (/\ last.op = "NationStatus" /\ last.ok /\ ~Has(ledger, nationSummaryKey)
     /\ \A stateID \in WhitelistStates(ledger) : ToLower(stateID) = stateID)
        => NationAnswerRight(ledger, last.res)

\* the nation was reported converged without a summary, over a whitelist
\* whose only state was enrolled blank and claimed as "unknown"
C40_LowerCaseWitness ==
    /\ last.op = "NationStatus" /\ last.ok /\ ~Has(ledger, nationSummaryKey)
    /\ last.res.is_converged
    /\ WhitelistStates(ledger) = { << "unknown" >> }

====
